---- MODULE Spec2Model ----
(***************************************************************************)
(* Verification model of the green-route planning backend                  *)
(* (JhanXXX/webGIS_for_GVI): the transit-feed client (SLApiService), the   *)
(* planner (RoutingEngine.planRoutes), the spatial-store connection pool   *)
(* and the engine-level lookup caches.                                     *)
(*                                                                         *)
(* Each component has its own specification over the shared variables:     *)
(*   SpecBatch  - one SLApiService.getBatchDepartures call, step by step   *)
(*   LiveBatch  - SpecBatch with weak fairness on the client's own steps   *)
(*   Spec       - one POST /plan-routes request through planRoutes         *)
(*   SpecEngine - tasks using the shared pools and the engine's caches     *)
(***************************************************************************)
EXTENDS Integers, Sequences, FiniteSets, TLC

(***************************************************************************)
(* Bounds of the model                                                     *)
(***************************************************************************)
\* longest site-id list handed to getBatchDepartures
MaxBatch == 3
\* site ids are 1..MaxSite
MaxSite == 2

Sites == 1..MaxSite

(***************************************************************************)
(* Departure records of the transit feed (spec 6.3): journey.id, line.id,  *)
(* direction_code, stop_point.id, expected (seconds from "now") and        *)
(* line.transport_mode.                                                    *)
(***************************************************************************)
Dep(j, l, d, s, t, m) ==
    [journey |-> j, line |-> l, dir |-> d, stop |-> s, expected |-> t, mode |-> m]

\* response bodies the remote service may send for a site
FeedBodies(site) ==
    { <<>>,
      << Dep(1, 1, 1, 10 * site + 1, 300 + 300 * site, "BUS") >>,
      << Dep(3, 7, 1, 10 * site + 2, 300, "METRO"),
         Dep(2, 2, 1, 10 * site + 2, 600 + 400 * site, "BUS"),
         Dep(1, 1, 1, 10 * site + 1, 300 + 300 * site, "BUS"),
         Dep(4, 2, 1, 10 * site + 1, 450 + 300 * site, "BUS"),
         Dep(5, 3, site, 10 * site + 1, 500 + 300 * site, "BUS") >> }

\* what the remote does with one request: a network error (no response), or an
\* HTTP response with a status and a body
RemoteOutcomes(site) ==
    { [kind |-> "neterr", status |-> 0, deps |-> <<>>] }
    \cup { [kind |-> "http", status |-> 500,
             deps |-> << Dep(1, 1, 1, 10 * site + 1, 300 + 300 * site, "BUS") >>] }
    \cup { [kind |-> "http", status |-> 200, deps |-> b] : b \in FeedBodies(site) }

\* sequences over S of length 0..n
SeqUpTo(S, n) == UNION { [1..k -> S] : k \in 0..n }

\* Array.prototype.filter
RECURSIVE SelectBus(_)
SelectBus(deps) ==
    IF deps = <<>> THEN <<>>
    ELSE IF Head(deps).mode = "BUS"
         THEN <<Head(deps)>> \o SelectBus(Tail(deps))
         ELSE SelectBus(Tail(deps))

\* Map.prototype.set
MapSet(m, k, v) == [x \in (DOMAIN m) \cup {k} |-> IF x = k THEN v ELSE m[x]]

VARIABLES
    \* ---- SLApiService.getBatchDepartures ----
    siteIds,      \* the input list
    i,            \* loop index (1-based)
    bpc,          \* position in getBatchDepartures / getDepartures
    inflight,     \* indices whose HTTP request is outstanding
    departures,   \* value returned by the current getDepartures call
    results,      \* the Map being built
    sleepCount,   \* pacing sleeps executed since the last request completed
    started,      \* history: indices in the order their request was issued
    respLog,      \* history: the remote's outcome for each completed request
    gapSleeps,    \* history: sleepCount observed when request 2, 3, ... was issued
    \* ---- POST /plan-routes -> RoutingEngine.planRoutes ----
    ppc,          \* position in planRoutes
    preferences,  \* options.preferences, in tenths
    strategyIdx,  \* index into strategies of generateWalkingCandidates
    candidates,   \* candidates of generateWalkingCandidates
    walkingRoutes,    \* value returned by generateWalkingCandidates
    originSites,      \* findNearbySites(origin)
    destinationSites, \* findNearbySites(destination)
    departuresCache,  \* value returned by getBatchDepartures
    top5Routes,       \* direct routes kept for scoring
    busRoutes,        \* value returned by generateBusCandidates
    finalRoutes,      \* value returned by planRoutes
    apiResponse,      \* what the handler answered
    cancelled,        \* the caller has signalled cancellation
    batchesAfterCancel, \* history: batches started after the signal
    solveLog,         \* history: outcome of each path solve
    feedLog,          \* history: the remote's outcome for each batch request
    maxResults        \* max_results of the request the handler answers

batchVars == <<siteIds, i, bpc, inflight, departures, results, sleepCount,
               started, respLog, gapSleeps>>

planVars == <<ppc, preferences, strategyIdx, candidates, walkingRoutes, originSites,
              destinationSites, departuresCache, top5Routes, busRoutes,
              finalRoutes, apiResponse, cancelled, batchesAfterCancel,
              solveLog, feedLog, maxResults>>

VARIABLES
    \* ---- the module-level RoutingEngine / DGVICalculator and their users ----
    opKind,        \* per task: the operation it is executing
    opKey,         \* per task: the stop point the operation is about
    opPc,          \* per task: position in the operation
    opCount,       \* per task: operations started so far
    opResult,      \* per task: how its last operation ended
    checkedOut,    \* per pool: clients checked out
    acquired,      \* history, per task: pool.connect() calls that resolved
    released,      \* history, per task: client.release() calls
    stopSiteCache, \* RoutingEngine.stopSiteCache
    nextStopCache, \* RoutingEngine.nextStopCache
    cacheReads     \* history: cache hits, with the task that wrote the entry

engineVars == <<opKind, opKey, opPc, opCount, opResult, checkedOut, acquired,
                released, stopSiteCache, nextStopCache, cacheReads>>

VARIABLES
    \* ---- RoutingEngine.findTransferRoutes ----
    tpc,            \* position in findTransferRoutes
    queryAgents,    \* the agents created from the origin departures
    agentIdx,       \* index of the agent the loop is at (1-based)
    transferRoutes, \* the routes collected so far
    chainLog,       \* history: routes each findTransferChainCached call returned
    lookupLog       \* history: getNextStopDirect calls of each of these calls

transferVars == <<tpc, queryAgents, agentIdx, transferRoutes, chainLog, lookupLog>>

VARIABLES
    \* ---- DGVICalculator.updateAllRoadDGVI and the road_dgvi table ----
    rpc,         \* per task: position in updateAllRoadDGVI
    rMonth,      \* per task: the month being rebuilt
    rIdx,        \* per task: index into the rows of the roads query (1-based)
    rDgvi,       \* per task: value calculateSegmentDGVI returned for the row
    roadDgvi,    \* the road_dgvi table
    runsStarted, \* rebuilds started so far
    clean,       \* history, per task: its run met no fault and no other run
    lastClean,   \* history: no row was written since a clean run completed
    faultSeen,   \* history: some per-edge computation failed
    calcLog      \* history: road, month and value of the computed DGVIs

rebuildVars == <<rpc, rMonth, rIdx, rDgvi, roadDgvi, runsStarted, clean,
                 lastClean, faultSeen, calcLog>>

VARIABLES
    \* ---- DataBuilder.addSequencesIncremental and the sl_bus_trips table ----
    slBusTrips,  \* the rows of sl_bus_trips
    buildRuns    \* site batches processed so far

sequenceVars == <<slBusTrips, buildRuns>>

VARIABLES
    \* ---- RoutePlan.createWalkingRoute / createDirectBusRoute ----
    now,          \* Date.now(), in milliseconds since the request arrived
    idPhase,      \* part of planRoutes the request is in
    builtWalking, \* the walking routes constructed, in order
    builtDirect,  \* the direct bus routes constructed, in order
    responseIds   \* route_id of the routes of the response, in order

routeIdVars == <<now, idPhase, builtWalking, builtDirect, responseIds>>

vars == <<batchVars, planVars, engineVars, transferVars, rebuildVars,
          sequenceVars, routeIdVars>>

notBatchVars == <<planVars, engineVars, transferVars, rebuildVars, sequenceVars,
                  routeIdVars>>
notPlanVars == <<batchVars, engineVars, transferVars, rebuildVars, sequenceVars,
                 routeIdVars>>
notEngineVars == <<batchVars, planVars, transferVars, rebuildVars, sequenceVars,
                   routeIdVars>>
notTransferVars == <<batchVars, planVars, engineVars, rebuildVars, sequenceVars,
                     routeIdVars>>
notSequenceVars == <<batchVars, planVars, engineVars, transferVars, rebuildVars,
                     routeIdVars>>
notRouteIdVars == <<batchVars, planVars, engineVars, transferVars, rebuildVars,
                    sequenceVars>>

\* tasks served by the one server process, each working through a few operations
MaxTasks == 2
MaxOps == 2
Tasks == 1..MaxTasks

\* clients a pool hands out before connect() has to wait
PoolSize == 2

\* routingEngine.pool and dgviCalculator.pool
Pools == {"engine", "dgvi"}

EngineIdle ==
    /\ opKind = [t \in Tasks |-> "none"]
    /\ opKey = [t \in Tasks |-> 0]
    /\ opPc = [t \in Tasks |-> "idle"]
    /\ opCount = [t \in Tasks |-> 0]
    /\ opResult = [t \in Tasks |-> "none"]
    /\ checkedOut = [p \in Pools |-> 0]
    /\ acquired = [t \in Tasks |-> 0]
    /\ released = [t \in Tasks |-> 0]
    /\ stopSiteCache = <<>>
    /\ nextStopCache = <<>>
    /\ cacheReads = {}

\* months of the GVI point layer, and the ids of the roads query (ORDER BY id)
Months == {"2025-07", "2025-08"}
RoadIds == <<1, 2, 3>>

\* a (road, month) without a row in road_dgvi
NoRow == [present |-> FALSE]

\* no rebuild is running and road_dgvi is as the init script leaves it: empty
RebuildIdle ==
    /\ rpc = [t \in Tasks |-> "idle"]
    /\ rMonth = [t \in Tasks |-> "none"]
    /\ rIdx = [t \in Tasks |-> 1]
    /\ rDgvi = [t \in Tasks |-> 0]
    /\ roadDgvi = [key \in {<<RoadIds[k], m>> : k \in DOMAIN RoadIds, m \in Months}
                       |-> NoRow]
    /\ runsStarted = 0
    /\ clean = [t \in Tasks |-> FALSE]
    /\ lastClean = FALSE
    /\ faultSeen = FALSE
    /\ calcLog = {}

\* a row of sl_bus_trips (journey_id, a sample, is not read by any query)
TripRow(lineId, directionCode, stopPointId, nextStopPointId) ==
    [line_id |-> lineId, direction_code |-> directionCode,
     stop_point_id |-> stopPointId, next_stop_point_id |-> nextStopPointId]

\* the line routes: line 1 runs 11 -> 21, line 2 runs 1k -> 2k -> 3k, line 4
\* runs 4k -> 2k -> 3k
LineRoutes ==
    { TripRow(1, 1, 11, 21) }
    \cup { TripRow(2, 1, stop, stop + 10) : stop \in {11, 12, 21, 22} }
    \cup { TripRow(4, 1, stop, stop - 20) : stop \in {41, 42} }
    \cup { TripRow(4, 1, stop, stop + 10) : stop \in {21, 22} }

\* contents of sl_bus_trips a search may meet: the line routes, the same with
\* line 2 running in a ring (3k -> 1k), and a table without rows
TripTables ==
    { LineRoutes,
      LineRoutes \cup { TripRow(2, 1, stop, stop - 20) : stop \in {31, 32} },
      {} }

\* sl_bus_trips as the setup leaves it (no sequence built yet)
SequenceIdle ==
    /\ slBusTrips = {}
    /\ buildRuns = 0

\* no request is building routes
RouteIdIdle ==
    /\ now = 0
    /\ idPhase = "idle"
    /\ builtWalking = <<>>
    /\ builtDirect = <<>>
    /\ responseIds = <<>>

\* findTransferRoutes is not running
TransferIdle ==
    /\ tpc = "idle"
    /\ queryAgents = <<>>
    /\ agentIdx = 1
    /\ transferRoutes = <<>>
    /\ chainLog = <<>>
    /\ lookupLog = <<>>

\* default of options.preferences, { time: 0.5, green: 0.5 }, in tenths
DefaultPreferences == [time |-> 5, green |-> 5]

\* max_results of the handler (default 4) and the values requests carry
DefaultMaxResults == 4
MaxResultsChoices == {2, 3, DefaultMaxResults}

\* the planner is not running
PlanIdle ==
    /\ ppc = "idle"
    /\ preferences = DefaultPreferences
    /\ strategyIdx = 1
    /\ candidates = <<>>
    /\ walkingRoutes = <<>>
    /\ originSites = <<>>
    /\ destinationSites = <<>>
    /\ departuresCache = <<>>
    /\ top5Routes = <<>>
    /\ busRoutes = <<>>
    /\ finalRoutes = <<>>
    /\ apiResponse = "none"
    /\ cancelled = FALSE
    /\ batchesAfterCancel = 0
    /\ solveLog = <<>>
    /\ feedLog = <<>>
    /\ maxResults = DefaultMaxResults

(***************************************************************************)
(* SLApiService.getDepartures: the value returned for a remote outcome.    *)
(* Any failure (network error, non-200 status) is caught and becomes [].   *)
(***************************************************************************)
GetDeparturesNoStatusCheck(resp) ==
    IF resp.kind = "http" THEN SelectBus(resp.deps) ELSE <<>>

GetDeparturesReturn(resp) ==
    IF resp.kind = "http" /\ resp.status = 200
    THEN SelectBus(resp.deps)
    ELSE <<>>

\* no getBatchDepartures call is being stepped through
BatchIdle ==
    /\ siteIds = <<>>
    /\ i = 1
    /\ bpc = "idle"
    /\ inflight = {}
    /\ departures = <<>>
    /\ results = <<>>
    /\ sleepCount = 0
    /\ started = <<>>
    /\ respLog = <<>>
    /\ gapSleeps = <<>>

BatchInit ==
    /\ PlanIdle
    /\ EngineIdle
    /\ TransferIdle
    /\ RebuildIdle
    /\ SequenceIdle
    /\ RouteIdIdle
    /\ siteIds \in SeqUpTo(Sites, MaxBatch)
    /\ i = 1
    /\ bpc = "loop"
    /\ inflight = {}
    /\ departures = <<>>
    /\ results = <<>>
    /\ sleepCount = 0
    /\ started = <<>>
    /\ respLog = <<>>
    /\ gapSleeps = <<>>

\* a variant that issues request i+1 without awaiting request i
StartRequestNoAwait ==
    /\ bpc \in {"loop", "awaitHttp"}
    /\ Len(started) < Len(siteIds)
    /\ inflight' = inflight \cup {Len(started) + 1}
    /\ started' = Append(started, Len(started) + 1)
    /\ bpc' = "awaitHttp"
    /\ gapSleeps' = gapSleeps
    /\ UNCHANGED <<siteIds, i, departures, results, sleepCount, respLog>>
    /\ UNCHANGED notBatchVars

\* for-loop head and the axios.get of getDepartures(siteIds[i])
StartRequest ==
    /\ bpc = "loop"
    /\ i <= Len(siteIds)
    /\ inflight' = inflight \cup {i}
    /\ started' = Append(started, i)
    /\ gapSleeps' = IF i > 1 THEN Append(gapSleeps, sleepCount) ELSE gapSleeps
    /\ bpc' = "awaitHttp"
    /\ UNCHANGED <<siteIds, i, departures, results, sleepCount, respLog>>
    /\ UNCHANGED notBatchVars

\* the remote answers (or the connection fails): try / catch of getDepartures
HttpResponse ==
    /\ bpc = "awaitHttp"
    /\ i \in inflight
    /\ \E resp \in RemoteOutcomes(siteIds[i]) :
        /\ departures' = GetDeparturesReturn(resp)
        /\ respLog' = Append(respLog, resp)
    /\ inflight' = inflight \ {i}
    /\ sleepCount' = 0
    /\ bpc' = "finallySleep"
    /\ UNCHANGED <<siteIds, i, results, started, gapSleeps>>
    /\ UNCHANGED notBatchVars

\* finally { await setTimeout(this.apiDelay) } of getDepartures
FinallyDelay ==
    /\ bpc = "finallySleep"
    /\ sleepCount' = sleepCount + 1
    /\ bpc' = "setResult"
    /\ UNCHANGED <<siteIds, i, inflight, departures, results, started, respLog, gapSleeps>>
    /\ UNCHANGED notBatchVars

\* results.set(siteId, departures), then the branch on i < siteIds.length - 1
SetResult ==
    /\ bpc = "setResult"
    /\ results' = MapSet(results, siteIds[i], departures)
    /\ IF i < Len(siteIds)
       THEN /\ bpc' = "batchSleep"
            /\ i' = i
       ELSE /\ bpc' = "loop"
            /\ i' = i + 1
    /\ UNCHANGED <<siteIds, inflight, departures, sleepCount, started, respLog, gapSleeps>>
    /\ UNCHANGED notBatchVars

\* await setTimeout(this.apiDelay) of getBatchDepartures, then i++
BatchDelay ==
    /\ bpc = "batchSleep"
    /\ sleepCount' = sleepCount + 1
    /\ i' = i + 1
    /\ bpc' = "loop"
    /\ UNCHANGED <<siteIds, inflight, departures, results, started, respLog, gapSleeps>>
    /\ UNCHANGED notBatchVars

\* return results
BatchReturn ==
    /\ bpc = "loop"
    /\ i > Len(siteIds)
    /\ bpc' = "done"
    /\ UNCHANGED <<siteIds, i, inflight, departures, results, sleepCount,
                   started, respLog, gapSleeps>>
    /\ UNCHANGED notBatchVars

\* the steps the client itself takes (everything but the remote's answer)
ClientStep == StartRequest \/ FinallyDelay \/ SetResult \/ BatchDelay \/ BatchReturn

NextBatch ==
    \/ StartRequest
    \/ HttpResponse
    \/ FinallyDelay
    \/ SetResult
    \/ BatchDelay
    \/ BatchReturn

SpecBatch == BatchInit /\ [][NextBatch]_vars

\* Timers and the event loop run the client's own steps; nothing obliges the
\* remote service to answer.
LiveBatch == BatchInit /\ [][NextBatch]_vars /\ WF_vars(ClientStep)

(***************************************************************************)
(* Properties of the transit-feed client                                   *)
(***************************************************************************)
Failed(resp) == resp.kind = "neterr" \/ resp.status # 200

IsLastOccurrence(k) == \A m \in (k + 1)..Len(siteIds) : siteIds[m] # siteIds[k]

\* C1: getBatchDepartures never fails because of per-site errors: whatever
\* subset of the sites fails (network error or non-200 status), the client can
\* always take its next step, and the returned map has an entry for every input
\* site: the empty list for a site whose request failed, the BUS departures of
\* the response body for a site whose request succeeded.
C1_BatchNeverFails ==
    /\ bpc \notin {"done", "awaitHttp"} => ENABLED ClientStep
    /\ bpc = "done" =>
        /\ Len(respLog) = Len(siteIds)
        /\ DOMAIN results = { siteIds[k] : k \in DOMAIN siteIds }
        /\ \A k \in DOMAIN siteIds :
              IsLastOccurrence(k) =>
                  results[siteIds[k]] =
                      IF Failed(respLog[k])
                      THEN <<>>
                      ELSE SelectSeq(respLog[k].deps, LAMBDA d : d.mode = "BUS")

\* a finished batch in which one site failed (with a body), another answered
\* with bus departures
C1_Witness ==
    /\ bpc = "done"
    /\ \E k \in DOMAIN siteIds :
          /\ Failed(respLog[k]) /\ respLog[k].deps # <<>>
          /\ IsLastOccurrence(k)
    /\ \E k \in DOMAIN siteIds :
          /\ ~Failed(respLog[k])
          /\ IsLastOccurrence(k)
          /\ results[siteIds[k]] # <<>>

\* C2: within one getBatchDepartures call the requests are serialized and
\* issued in input order: at most one request is in flight, the k-th request
\* issued is the one for siteIds[k], and request k+1 is issued only after
\* request k has completed.
C2_Serialized ==
    /\ Cardinality(inflight) <= 1
    /\ \A k \in DOMAIN started : started[k] = k
    /\ Len(started) <= Len(respLog) + 1
    /\ inflight = { k \in DOMAIN started : k > Len(respLog) }

\* the third request of a batch is in flight after a failed and a successful one
C2_Witness ==
    /\ Len(started) = 3
    /\ inflight = {3}
    /\ \E k \in 1..2 : Failed(respLog[k])
    /\ \E k \in 1..2 : ~Failed(respLog[k])

\* C3: between two successive requests of one batch the client sleeps the
\* pacing delay exactly once.
C3_OnePacingSleep ==
    \A k \in DOMAIN gapSleeps : gapSleeps[k] = 1

\* C4: every departures request is bounded by a timeout, so the batch
\* eventually returns even if the remote service never answers.
C4_BatchEventuallyReturns == <>(bpc = "done")

(***************************************************************************)
(* The road store as the planner sees it                                   *)
(***************************************************************************)
\* walkingSpeed = 1.4 m/s, as the fraction 7/5
WalkingSpeedNum == 7
WalkingSpeedDen == 5

\* stockholm_osm.length of the road edges, in metres
EdgeLength(e) ==
    CASE e = 1 -> 35 [] e = 2 -> 70 [] e = 3 -> 140 [] e = 4 -> 42 [] e = 10 -> 84

\* per-edge DGVI of the month (what calculateSegmentDGVI returns)
EdgeDGVI(e) ==
    CASE e = 1 -> 10 [] e = 2 -> 30 [] e = 3 -> 100 [] e = 4 -> 5 [] e = 10 -> 20

\* the paths of the road graph between the request's two nearest vertices, as
\* pgr_dijkstra may return them under the different cost functions
PathChoices == { <<3>>, <<2, 10>>, <<1, 4, 10>> }

\* what one path solve does: a failed query (or no nearest vertex), an empty
\* pgr_dijkstra result, or a path
SolveOutcomes ==
    { [kind |-> "error", edges |-> <<>>], [kind |-> "nopath", edges |-> <<>>] }
    \cup { [kind |-> "path", edges |-> p] : p \in PathChoices }

\* a column value of a result row: SQL NULL or a value
SqlNull == [null |-> TRUE, v |-> <<>>]
SqlVal(x) == [null |-> FALSE, v |-> x]

RECURSIVE SumLength(_)
SumLength(edges) ==
    IF edges = <<>> THEN 0 ELSE EdgeLength(Head(edges)) + SumLength(Tail(edges))

\* rows of the route query: array_agg / sum over the pgr_dijkstra result. An
\* aggregate without GROUP BY yields exactly one row, of NULLs when the
\* pgr_dijkstra result is empty.
RouteQueryRows(o) ==
    IF o.kind = "nopath"
    THEN << [road_ids |-> SqlNull, total_length |-> SqlNull] >>
    ELSE << [road_ids |-> SqlVal(o.edges), total_length |-> SqlVal(SumLength(o.edges))] >>

\* the same in minutes
DivBySpeedInMinutes(x) ==
    IF x.null THEN 0 ELSE (x.v * WalkingSpeedDen) \div (WalkingSpeedNum * 60)

\* null / 1.4 is 0 in JavaScript; distances are multiples of 7 m here
DivBySpeed(x) == IF x.null THEN 0 ELSE (x.v * WalkingSpeedDen) \div WalkingSpeedNum

\* x || [] and x || 0
OrEmptyList(x) == IF x.null THEN <<>> ELSE x.v
OrZero(x) == IF x.null THEN 0 ELSE x.v

\* places: the request's two endpoints, a site, a stop point
RequestOrigin == [kind |-> "origin", id |-> 0]
RequestDestination == [kind |-> "destination", id |-> 0]
SitePoint(siteId) == [kind |-> "site", id |-> siteId]
StopPoint(stopPointId) == [kind |-> "stop", id |-> stopPointId]

\* SegmentFactory.createWalkingSegment
CreateWalkingSegment(duration, distance, roadIds, startPoint, endPoint) ==
    [type |-> "walking", duration |-> duration, distance |-> distance,
     roadIds |-> roadIds, startPoint |-> startPoint, endPoint |-> endPoint]

\* the scores the RoutePlan constructor sets: durationScore, acDGVIScore and
\* totalScore are 0 (kept as numerators over scoreDen)
UnscoredFields ==
    [scoreDen |-> 1, durationScore |-> 0, acDGVIScore |-> 0, totalScore |-> 0]

\* RoutePlan.createWalkingRoute
CreateWalkingRoute(totalDuration, totalDistance, roadIds) ==
    [routeType |-> "walking",
     segments |-> << CreateWalkingSegment(totalDuration, OrZero(totalDistance),
                                         OrEmptyList(roadIds),
                                         RequestOrigin, RequestDestination) >>,
     totalDuration |-> totalDuration,
     origin |-> RequestOrigin,
     destination |-> RequestDestination,
     totalAcDGVI |-> 0,
     strategy |-> 0] @@ UnscoredFields

\* RoutingEngine.calculateWalkingRoute: throws, or returns a RoutePlan
CalculateWalkingRoute(o) ==
    IF o.kind = "error"
    THEN [threw |-> TRUE, route |-> <<>>]
    ELSE LET rows == RouteQueryRows(o) IN
         IF Len(rows) = 0
         THEN [threw |-> TRUE, route |-> <<>>]
         ELSE [threw |-> FALSE,
               route |-> CreateWalkingRoute(DivBySpeed(rows[1].total_length),
                                            rows[1].total_length,
                                            rows[1].road_ids)]

\* DGVICalculator.calculateWalkingDGVI
RECURSIVE CalculateWalkingDGVI(_)
CalculateWalkingDGVI(roadIds) ==
    IF roadIds = <<>> THEN 0
    ELSE EdgeDGVI(Head(roadIds)) + CalculateWalkingDGVI(Tail(roadIds))

(***************************************************************************)
(* deduplicateRoutes: the fingerprint is segments.flatMap(roadIds)         *)
(* .sort().join(','): Array.prototype.sort without a comparator orders by  *)
(* the elements' string form.                                              *)
(***************************************************************************)
\* String(n) as the sequence of its characters' codes ('0' is 48)
RECURSIVE ToStr(_)
ToStr(n) == IF n < 10 THEN <<48 + n>> ELSE ToStr(n \div 10) \o <<48 + (n % 10)>>

\* a < b in JavaScript's string order
RECURSIVE StrLess(_, _)
StrLess(a, b) ==
    IF b = <<>> THEN FALSE
    ELSE IF a = <<>> THEN TRUE
    ELSE IF Head(a) # Head(b) THEN Head(a) < Head(b)
    ELSE StrLess(Tail(a), Tail(b))

\* insert x into the sorted list, after the elements not greater than it
RECURSIVE InsertSorted(_, _)
InsertSorted(x, sorted) ==
    IF sorted = <<>> THEN <<x>>
    ELSE IF StrLess(ToStr(x), ToStr(Head(sorted)))
         THEN <<x>> \o sorted
         ELSE <<Head(sorted)>> \o InsertSorted(x, Tail(sorted))

RECURSIVE JsSort(_)
JsSort(xs) ==
    IF xs = <<>> THEN <<>>
    ELSE InsertSorted(xs[Len(xs)], JsSort(SubSeq(xs, 1, Len(xs) - 1)))

\* Array.prototype.join(','); ',' is 44
RECURSIVE JoinComma(_)
JoinComma(xs) ==
    IF xs = <<>> THEN <<>>
    ELSE IF Len(xs) = 1 THEN ToStr(xs[1])
    ELSE ToStr(xs[1]) \o <<44>> \o JoinComma(Tail(xs))

\* segments.filter(s => s.roadIds).flatMap(s => s.roadIds)
RECURSIVE AllRoadIds(_)
AllRoadIds(segments) ==
    IF segments = <<>> THEN <<>>
    ELSE (IF "roadIds" \in DOMAIN Head(segments) THEN Head(segments).roadIds ELSE <<>>)
         \o AllRoadIds(Tail(segments))

Fingerprint(route) == JoinComma(JsSort(AllRoadIds(route.segments)))

RECURSIVE DedupFrom(_, _)
DedupFrom(routes, seen) ==
    IF routes = <<>> THEN <<>>
    ELSE LET fp == Fingerprint(Head(routes)) IN
         IF fp \in seen
         THEN DedupFrom(Tail(routes), seen)
         ELSE <<Head(routes)>> \o DedupFrom(Tail(routes), seen \cup {fp})

\* a variant that never records a fingerprint as seen
DeduplicateNothingSeen(routes) == routes

\* RoutingEngine.deduplicateRoutes
DeduplicateRoutes(routes) == DedupFrom(routes, {})

\* Array.prototype.slice(0, n)
Slice(xs, n) == SubSeq(xs, 1, IF Len(xs) < n THEN Len(xs) ELSE n)

(***************************************************************************)
(* planRoutes, part 1: generateWalkingCandidates                           *)
(***************************************************************************)
\* strategies.length: User Preference, ASAP, GROOT
NumStrategies == 3

\* routes kept per category: slice(0, 2)
KeepPerCategory == 2

\* one request sees one road graph: its solves either find paths or find none
SameGraph(o) ==
    /\ o.kind = "path" => \A k \in DOMAIN solveLog : solveLog[k].kind # "nopath"
    /\ o.kind = "nopath" => \A k \in DOMAIN solveLog : solveLog[k].kind # "path"

\* a batch starts: count it if the caller has already signalled cancellation
CountBatch == batchesAfterCancel' = batchesAfterCancel + (IF cancelled THEN 1 ELSE 0)

\* one iteration of the strategy loop: calculateWalkingRoute under try/catch,
\* then calculateRouteDGVI and candidates.push
WalkingStrategy ==
    /\ ppc = "walking"
    /\ strategyIdx <= NumStrategies
    /\ \E o \in SolveOutcomes :
        /\ SameGraph(o)
        /\ solveLog' = Append(solveLog, o)
        /\ LET r == CalculateWalkingRoute(o) IN
           candidates' =
              IF r.threw THEN candidates
              ELSE Append(candidates,
                     [r.route EXCEPT
                        !.totalAcDGVI = CalculateWalkingDGVI(AllRoadIds(r.route.segments)),
                        !.strategy = strategyIdx])
    /\ strategyIdx' = strategyIdx + 1
    /\ CountBatch
    /\ UNCHANGED <<ppc, preferences, walkingRoutes, originSites, destinationSites,
                   departuresCache, top5Routes, busRoutes, finalRoutes, apiResponse,
                   cancelled, feedLog>>
    /\ UNCHANGED <<maxResults, notPlanVars>>

\* deduplicateRoutes(candidates).slice(0, 2)
WalkingReturn ==
    /\ ppc = "walking"
    /\ strategyIdx > NumStrategies
    /\ walkingRoutes' = Slice(DeduplicateRoutes(candidates), KeepPerCategory)
    /\ ppc' = "nearby"
    /\ UNCHANGED <<preferences, strategyIdx, candidates, originSites,
                   destinationSites, departuresCache, top5Routes, busRoutes,
                   finalRoutes, apiResponse, cancelled, batchesAfterCancel, solveLog,
                   feedLog>>
    /\ UNCHANGED <<maxResults, notPlanVars>>

(***************************************************************************)
(* planRoutes, part 2: generateBusCandidates                               *)
(***************************************************************************)
\* a row of findNearbySites
Site(id, dist) == [siteId |-> id, walkingDistance |-> dist]

\* what findNearbySites(origin) / findNearbySites(destination) may return: the
\* rows of the query, or [] when the query fails
OriginNearby == { <<>>, << Site(1, 140) >>, << Site(1, 140), Site(2, 1400) >>,
                  << Site(2, 1750), Site(1, 2100) >> }
DestinationNearby == { <<>>, << Site(2, 70) >>, << Site(3, 70) >> }

\* bus_search max duration passed by generateBusCandidates; transfer/boarding
\* margin of the feasibility test
MaxBusDuration == 3600
BoardingMargin == 60

\* number of direct routes scored; unit of the preference weights (tenths)
TopByArrival == 5
PrefUnit == 10

PrefChoices == { DefaultPreferences, [time |-> 2, green |-> 8] }

SiteIdsOf(sites) == [k \in DOMAIN sites |-> sites[k].siteId]

\* getBatchDepartures as a function of the remote's outcomes, request by request
RECURSIVE BatchDepartures(_, _)
BatchDepartures(ids, outcomes) ==
    IF ids = <<>> THEN <<>>
    ELSE MapSet(BatchDepartures(SubSeq(ids, 1, Len(ids) - 1),
                                SubSeq(outcomes, 1, Len(ids) - 1)),
                ids[Len(ids)],
                GetDeparturesReturn(outcomes[Len(ids)]))

\* departuresCache.get(siteId) || []
CacheGet(cache, siteId) == IF siteId \in DOMAIN cache THEN cache[siteId] ELSE <<>>

\* a Map kept as the list of its entries in insertion order
RECURSIVE EntrySet(_, _, _)
EntrySet(m, k, v) ==
    IF m = <<>> THEN << [key |-> k, val |-> v] >>
    ELSE IF Head(m).key = k THEN << [key |-> k, val |-> v] >> \o Tail(m)
    ELSE << Head(m) >> \o EntrySet(Tail(m), k, v)

EntryHas(m, k) == \E n \in DOMAIN m : m[n].key = k
EntryGet(m, k) == m[CHOOSE n \in DOMAIN m : m[n].key = k].val

\* all departures of the sites, in site order, each tagged with its site
RECURSIVE TaggedDepartures(_, _)
TaggedDepartures(sites, cache) ==
    IF sites = <<>> THEN <<>>
    ELSE LET deps == CacheGet(cache, Head(sites).siteId) IN
         [k \in DOMAIN deps |-> [siteId |-> Head(sites).siteId, dep |-> deps[k]]]
         \o TaggedDepartures(Tail(sites), cache)

\* originJourneys: journey id -> the last origin departure seen for it
RECURSIVE OriginJourneys(_)
OriginJourneys(tagged) ==
    IF tagged = <<>> THEN <<>>
    ELSE LET t == tagged[Len(tagged)] IN
         EntrySet(OriginJourneys(SubSeq(tagged, 1, Len(tagged) - 1)),
                  t.dep.journey,
                  [siteId |-> t.siteId, stopPointId |-> t.dep.stop,
                   expectedTime |-> t.dep.expected, lineId |-> t.dep.line,
                   directionCode |-> t.dep.dir])

\* destJourneys without the comparison of line id and direction code
RECURSIVE DestJourneysAnyLine(_, _)
DestJourneysAnyLine(tagged, origin) ==
    IF tagged = <<>> THEN <<>>
    ELSE LET t == tagged[Len(tagged)]
             rest == DestJourneysAnyLine(SubSeq(tagged, 1, Len(tagged) - 1), origin)
         IN IF EntryHas(origin, t.dep.journey)
            THEN EntrySet(rest, t.dep.journey,
                          [siteId |-> t.siteId, stopPointId |-> t.dep.stop,
                           expectedTime |-> t.dep.expected, lineId |-> t.dep.line])
            ELSE rest

\* destJourneys: destination departures of a journey seen at an origin with the
\* same line and direction
RECURSIVE DestJourneys(_, _)
DestJourneys(tagged, origin) ==
    IF tagged = <<>> THEN <<>>
    ELSE LET t == tagged[Len(tagged)]
             rest == DestJourneys(SubSeq(tagged, 1, Len(tagged) - 1), origin)
         IN IF /\ EntryHas(origin, t.dep.journey)
               /\ EntryGet(origin, t.dep.journey).lineId = t.dep.line
               /\ EntryGet(origin, t.dep.journey).directionCode = t.dep.dir
            THEN EntrySet(rest, t.dep.journey,
                          [siteId |-> t.siteId, stopPointId |-> t.dep.stop,
                           expectedTime |-> t.dep.expected, lineId |-> t.dep.line])
            ELSE rest

\* sites.find(s => s.siteId === id)
FindSite(sites, id) == sites[CHOOSE k \in DOMAIN sites :
                                /\ sites[k].siteId = id
                                /\ \A m \in 1..(k - 1) : sites[m].siteId # id]

\* calculateWalkingSegment between a site and a stop point: the edges of the
\* path found, [] (with duration 0) when there is none
SegmentEdges(siteId, stopPointId) ==
    IF stopPointId = 10 * siteId + 1 THEN <<1>> ELSE <<>>

CalculateWalkingSegment(siteId, stopPointId) ==
    LET edges == SegmentEdges(siteId, stopPointId) IN
    [duration |-> DivBySpeed(SqlVal(SumLength(edges))),
     distance |-> SumLength(edges),
     roadIds |-> edges]

\* RoutePlan.createDirectBusRoute
CreateDirectBusRoute(cfg) ==
    [routeType |-> "direct_bus",
     segments |->
        (IF cfg.walkingToDep.duration > 0
         THEN << CreateWalkingSegment(cfg.walkingToDep.duration,
                                      cfg.walkingToDep.distance,
                                      cfg.walkingToDep.roadIds,
                                      cfg.origin, StopPoint(cfg.departureStop)) >>
         ELSE <<>>)
        \o << [type |-> "bus_waiting", duration |-> 0,
               stopPointId |-> cfg.departureStop,
               expectedDeparture |-> cfg.expectedDeparture],
              [type |-> "bus_ride", duration |-> cfg.busRideDuration,
               startStopId |-> cfg.departureStop, endStopId |-> cfg.arrivalStop,
               lineId |-> cfg.lineId, directionCode |-> cfg.directionCode,
               expectedDeparture |-> cfg.expectedDeparture,
               expectedArrival |-> cfg.expectedArrival] >>
        \o (IF cfg.walkingFromArr.duration > 0
            THEN << CreateWalkingSegment(cfg.walkingFromArr.duration,
                                         cfg.walkingFromArr.distance,
                                         cfg.walkingFromArr.roadIds,
                                         StopPoint(cfg.arrivalStop),
                                         cfg.destination) >>
            ELSE <<>>),
     totalDuration |-> cfg.totalDuration,
     origin |-> cfg.origin,
     destination |-> cfg.destination,
     totalAcDGVI |-> 0,
     journeyId |-> cfg.journeyId,
     originSiteId |-> cfg.originSiteId,
     destSiteId |-> cfg.destSiteId] @@ UnscoredFields

\* the loop of findDirectRoutes over originJourneys (currentTime is 0)
RECURSIVE DirectFrom(_, _, _, _, _)
DirectFrom(origin, dest, oSites, dSites, maxDuration) ==
    IF origin = <<>> THEN <<>>
    ELSE LET journeyId == Head(origin).key
             depInfo == Head(origin).val
             rest == DirectFrom(Tail(origin), dest, oSites, dSites, maxDuration)
         IN IF ~EntryHas(dest, journeyId) THEN rest
            ELSE LET arrInfo == EntryGet(dest, journeyId)
                     travelTime == arrInfo.expectedTime - depInfo.expectedTime
                     originSite == FindSite(oSites, depInfo.siteId)
                     walkingTimeToDep == DivBySpeed(SqlVal(originSite.walkingDistance))
                     walkingToDep == CalculateWalkingSegment(depInfo.siteId,
                                                             depInfo.stopPointId)
                     walkingFromArr == CalculateWalkingSegment(arrInfo.siteId,
                                                               arrInfo.stopPointId)
                 IN IF travelTime <= 0 \/ travelTime > maxDuration THEN rest
                    ELSE IF walkingTimeToDep + BoardingMargin > depInfo.expectedTime
                         THEN rest
                    ELSE << CreateDirectBusRoute(
                              [origin |-> SitePoint(originSite.siteId),
                               destination |-> SitePoint(arrInfo.siteId),
                               walkingToDep |-> walkingToDep,
                               walkingFromArr |-> walkingFromArr,
                               departureStop |-> depInfo.stopPointId,
                               arrivalStop |-> arrInfo.stopPointId,
                               busRideDuration |-> travelTime,
                               lineId |-> depInfo.lineId,
                               directionCode |-> depInfo.directionCode,
                               expectedDeparture |-> depInfo.expectedTime,
                               expectedArrival |-> arrInfo.expectedTime,
                               journeyId |-> journeyId,
                               originSiteId |-> depInfo.siteId,
                               destSiteId |-> arrInfo.siteId,
                               totalDuration |-> walkingToDep.duration + travelTime
                                                 + walkingFromArr.duration]) >>
                         \o rest

\* RoutingEngine.findDirectRoutes
FindDirectRoutes(oSites, dSites, maxDuration, cache) ==
    LET origin == OriginJourneys(TaggedDepartures(oSites, cache))
        dest == DestJourneys(TaggedDepartures(dSites, cache), origin)
    IN DirectFrom(origin, dest, oSites, dSites, maxDuration)

\* RoutingEngine.getRouteArrivalTime: expectedArrival of the last segment that
\* has one
RECURSIVE GetRouteArrivalTime(_)
GetRouteArrivalTime(route) ==
    LET segs == route.segments IN
    IF segs = <<>> THEN route.totalDuration
    ELSE IF "expectedArrival" \in DOMAIN segs[Len(segs)]
         THEN segs[Len(segs)].expectedArrival
         ELSE GetRouteArrivalTime([route EXCEPT
                                     !.segments = SubSeq(segs, 1, Len(segs) - 1)])

\* Array.prototype.sort(compare) is stable: an element is inserted after the
\* elements that do not compare greater than it.
\* routes.sort((a, b) => getRouteArrivalTime(a) - getRouteArrivalTime(b))
RECURSIVE InsertByArrival(_, _)
InsertByArrival(x, sorted) ==
    IF sorted = <<>> THEN <<x>>
    ELSE IF GetRouteArrivalTime(x) - GetRouteArrivalTime(Head(sorted)) < 0
         THEN <<x>> \o sorted
         ELSE <<Head(sorted)>> \o InsertByArrival(x, Tail(sorted))

RECURSIVE SortByArrival(_)
SortByArrival(xs) ==
    IF xs = <<>> THEN <<>>
    ELSE InsertByArrival(xs[Len(xs)], SortByArrival(SubSeq(xs, 1, Len(xs) - 1)))

\* routes.sort((a, b) => b.totalScore - a.totalScore)
RECURSIVE InsertByScore(_, _)
InsertByScore(x, sorted) ==
    IF sorted = <<>> THEN <<x>>
    ELSE IF Head(sorted).totalScore - x.totalScore < 0
         THEN <<x>> \o sorted
         ELSE <<Head(sorted)>> \o InsertByScore(x, Tail(sorted))

\* a variant of the sort by score that leaves the order as it is
SortByScoreKeepsOrder(xs) == xs

RECURSIVE SortByScore(_)
SortByScore(xs) ==
    IF xs = <<>> THEN <<>>
    ELSE InsertByScore(xs[Len(xs)], SortByScore(SubSeq(xs, 1, Len(xs) - 1)))

\* DGVICalculator.calculateWaitingDGVI at a stop point
WaitingDGVI(stopPointId) == (stopPointId % 7) * 10

\* Step 5 of generateBusCandidates: totalAcDGVI = sum over the bus_waiting
\* segments
RECURSIVE SumWaitingDGVI(_)
SumWaitingDGVI(segments) ==
    IF segments = <<>> THEN 0
    ELSE (IF Head(segments).type = "bus_waiting"
          THEN WaitingDGVI(Head(segments).stopPointId) ELSE 0)
         + SumWaitingDGVI(Tail(segments))

WithWaitingDGVI(routes) ==
    [k \in DOMAIN routes |->
        [routes[k] EXCEPT !.totalAcDGVI = SumWaitingDGVI(routes[k].segments)]]

SeqMin(xs) == CHOOSE x \in {xs[k] : k \in DOMAIN xs} : \A k \in DOMAIN xs : x <= xs[k]
SeqMax(xs) == CHOOSE x \in {xs[k] : k \in DOMAIN xs} : \A k \in DOMAIN xs : x >= xs[k]

\* RoutingEngine.scoreBusRoutes. The three scores of a route are kept as exact
\* fractions over the common denominator scoreDen:
\*   timeNorm = (t - minTime) / dT, dgviNorm = (g - minDGVI) / dG (0 when the
\*   range is empty), totalScore = 1 - (time * timeNorm + green * (1 - dgviNorm))
ScoreBusRoutes(routes, prefs) ==
    IF routes = <<>> THEN <<>>
    ELSE LET times == [k \in DOMAIN routes |-> routes[k].totalDuration]
             dgvis == [k \in DOMAIN routes |-> routes[k].totalAcDGVI]
             minTime == SeqMin(times)
             maxTime == SeqMax(times)
             minDGVI == SeqMin(dgvis)
             maxDGVI == SeqMax(dgvis)
             dT == IF maxTime > minTime THEN maxTime - minTime ELSE 1
             dG == IF maxDGVI > minDGVI THEN maxDGVI - minDGVI ELSE 1
             timeNum(r) == IF maxTime > minTime THEN r.totalDuration - minTime ELSE 0
             dgviNum(r) == IF maxDGVI > minDGVI THEN r.totalAcDGVI - minDGVI ELSE 0
             den == PrefUnit * dT * dG
             scored ==
                [k \in DOMAIN routes |->
                   [routes[k] EXCEPT
                      !.scoreDen = den,
                      !.durationScore = den - PrefUnit * dG * timeNum(routes[k]),
                      !.acDGVIScore = PrefUnit * dT * dgviNum(routes[k]),
                      !.totalScore = den - ( prefs.time * timeNum(routes[k]) * dG
                                            + prefs.green
                                                * (dG - dgviNum(routes[k])) * dT )]]
         IN SortByScore(scored)

\* the outcomes the remote may produce for the requests of one batch
RECURSIVE BatchOutcomes(_)
BatchOutcomes(ids) ==
    IF ids = <<>> THEN { <<>> }
    ELSE { <<o>> \o rest : o \in RemoteOutcomes(Head(ids)),
                           rest \in BatchOutcomes(Tail(ids)) }

\* findNearbySites(origin), findNearbySites(destination) and the early return
\* when either is empty
FindNearbySites ==
    /\ ppc = "nearby"
    /\ \E o \in OriginNearby, d \in DestinationNearby :
        /\ originSites' = o
        /\ destinationSites' = d
        /\ ppc' = IF Len(o) = 0 \/ Len(d) = 0 THEN "combine" ELSE "departures"
    /\ UNCHANGED <<preferences, strategyIdx, candidates, walkingRoutes,
                   departuresCache, top5Routes, busRoutes, finalRoutes, apiResponse,
                   cancelled, batchesAfterCancel, solveLog, feedLog>>
    /\ UNCHANGED <<maxResults, notPlanVars>>

\* pool.connect() rejects in findNearbySites: it is outside the try, so the
\* error leaves generateBusCandidates and planRoutes rethrows it
FindNearbySitesThrows ==
    /\ ppc = "nearby"
    /\ ppc' = "threw"
    /\ UNCHANGED <<preferences, strategyIdx, candidates, walkingRoutes, originSites,
                   destinationSites, departuresCache, top5Routes, busRoutes,
                   finalRoutes, apiResponse, cancelled, batchesAfterCancel, solveLog,
                   feedLog>>
    /\ UNCHANGED <<maxResults, notPlanVars>>

\* Step 2: allSiteIds and slApi.getBatchDepartures(allSiteIds, 1200)
DepartureBatch ==
    /\ ppc = "departures"
    /\ LET allSiteIds == SiteIdsOf(originSites) \o SiteIdsOf(destinationSites) IN
       \E outcomes \in BatchOutcomes(allSiteIds) :
          /\ departuresCache' = BatchDepartures(allSiteIds, outcomes)
          /\ feedLog' = [k \in DOMAIN outcomes |->
                             [site |-> allSiteIds[k], kind |-> outcomes[k].kind,
                              status |-> outcomes[k].status,
                              deps |-> outcomes[k].deps]]
    /\ ppc' = "direct"
    /\ CountBatch
    /\ UNCHANGED <<preferences, strategyIdx, candidates, walkingRoutes, originSites,
                   destinationSites, top5Routes, busRoutes, finalRoutes, apiResponse,
                   cancelled, solveLog>>
    /\ UNCHANGED <<maxResults, notPlanVars>>

\* Steps 3-4: findDirectRoutes (with the path solves of its walking segments),
\* sort by arrival, slice(0, 5)
DirectRoutes ==
    /\ ppc = "direct"
    /\ LET directRoutes == FindDirectRoutes(originSites, destinationSites,
                                            MaxBusDuration, departuresCache) IN
       /\ top5Routes' = Slice(SortByArrival(directRoutes), TopByArrival)
       /\ batchesAfterCancel' = batchesAfterCancel
             + (IF cancelled /\ directRoutes # <<>> THEN 1 ELSE 0)
    /\ ppc' = "waiting"
    /\ UNCHANGED <<preferences, strategyIdx, candidates, walkingRoutes, originSites,
                   destinationSites, departuresCache, busRoutes, finalRoutes,
                   apiResponse, cancelled, solveLog, feedLog>>
    /\ UNCHANGED <<maxResults, notPlanVars>>

\* Steps 5-7: waiting DGVI of the top 5, scoreBusRoutes, slice(0, 2)
ScoreAndSelect ==
    /\ ppc = "waiting"
    /\ busRoutes' = Slice(ScoreBusRoutes(WithWaitingDGVI(top5Routes), preferences),
                          KeepPerCategory)
    /\ batchesAfterCancel' = batchesAfterCancel
          + (IF cancelled /\ top5Routes # <<>> THEN 1 ELSE 0)
    /\ ppc' = "combine"
    /\ UNCHANGED <<preferences, strategyIdx, candidates, walkingRoutes, originSites,
                   destinationSites, departuresCache, top5Routes, finalRoutes,
                   apiResponse, cancelled, solveLog, feedLog>>
    /\ UNCHANGED <<maxResults, notPlanVars>>

\* PART 3 of planRoutes: finalRoutes; the handler then answers success: true.
\* The handler passes max_results on as options.maxResults, which planRoutes
\* binds and no statement reads: the request's value is drawn here, where the
\* response is built.
PlanReturns ==
    /\ ppc = "combine"
    /\ finalRoutes' = Slice(walkingRoutes, KeepPerCategory)
                      \o Slice(busRoutes, KeepPerCategory)
    /\ \E requested \in MaxResultsChoices : maxResults' = requested
    /\ apiResponse' = "success"
    /\ ppc' = "done"
    /\ UNCHANGED <<preferences, strategyIdx, candidates, walkingRoutes, originSites,
                   destinationSites, departuresCache, top5Routes, busRoutes,
                   cancelled, batchesAfterCancel, solveLog, feedLog>>
    /\ UNCHANGED notPlanVars

\* planRoutes threw: the handler's catch answers 500
PlanFails ==
    /\ ppc = "threw"
    /\ apiResponse' = "error500"
    /\ ppc' = "done"
    /\ UNCHANGED <<preferences, strategyIdx, candidates, walkingRoutes, originSites,
                   destinationSites, departuresCache, top5Routes, busRoutes,
                   finalRoutes, cancelled, batchesAfterCancel, solveLog, feedLog>>
    /\ UNCHANGED <<maxResults, notPlanVars>>

\* the caller gives up while the request is being served. Neither the handler
\* nor planRoutes takes a signal, so nothing but the caller's own flag changes.
Cancel ==
    /\ ppc \notin {"idle", "done"}
    /\ ~cancelled
    /\ cancelled' = TRUE
    /\ UNCHANGED <<ppc, preferences, strategyIdx, candidates, walkingRoutes,
                   originSites, destinationSites, departuresCache, top5Routes,
                   busRoutes, finalRoutes, apiResponse, batchesAfterCancel, solveLog,
                   feedLog>>
    /\ UNCHANGED <<maxResults, notPlanVars>>

Init ==
    /\ BatchIdle
    /\ EngineIdle
    /\ TransferIdle
    /\ RebuildIdle
    /\ RouteIdIdle
    /\ slBusTrips = LineRoutes
    /\ buildRuns = 0
    /\ ppc = "walking"
    /\ preferences \in PrefChoices
    /\ strategyIdx = 1
    /\ candidates = <<>>
    /\ walkingRoutes = <<>>
    /\ originSites = <<>>
    /\ destinationSites = <<>>
    /\ departuresCache = <<>>
    /\ top5Routes = <<>>
    /\ busRoutes = <<>>
    /\ finalRoutes = <<>>
    /\ apiResponse = "none"
    /\ cancelled = FALSE
    /\ batchesAfterCancel = 0
    /\ solveLog = <<>>
    /\ feedLog = <<>>
    /\ maxResults = DefaultMaxResults

Next ==
    \/ WalkingStrategy
    \/ WalkingReturn
    \/ FindNearbySites
    \/ FindNearbySitesThrows
    \/ DepartureBatch
    \/ DirectRoutes
    \/ ScoreAndSelect
    \/ PlanReturns
    \/ PlanFails
    \/ Cancel

Spec == Init /\ [][Next]_vars

(***************************************************************************)
(* Properties of a planning request                                        *)
(***************************************************************************)
\* the edge ids of the road store
EdgeIds == {1, 2, 3, 4, 10}

\* number of occurrences of e in a list
RECURSIVE Occurrences(_, _)
Occurrences(e, xs) ==
    IF xs = <<>> THEN 0
    ELSE (IF Head(xs) = e THEN 1 ELSE 0) + Occurrences(e, Tail(xs))

SameEdgeMultiset(r1, r2) ==
    \A e \in EdgeIds : Occurrences(e, AllRoadIds(r1.segments))
                       = Occurrences(e, AllRoadIds(r2.segments))

PairwiseDifferent(routes) ==
    \A a, b \in DOMAIN routes : a < b => ~SameEdgeMultiset(routes[a], routes[b])

WalkingOf(routes) == SelectSeq(routes, LAMBDA r : r.routeType = "walking")

FeedOutage == feedLog # <<>> /\ \A k \in DOMAIN feedLog : Failed(feedLog[k])

\* C5: once the caller has signalled cancellation, planRoutes starts no batch
\* (path solve, departure batch, DGVI batch) beyond the one that may be in
\* flight, and a request that was cancelled returns no routes.
C5_CancellationObserved ==
    /\ batchesAfterCancel <= 1
    /\ (ppc = "done" /\ cancelled /\ apiResponse = "success") => finalRoutes = <<>>

\* C6: when every transit-feed request of the planning request fails, the
\* request does not fail, the handler answers success, the result has no bus
\* route, and its walking routes are the ones generateWalkingCandidates
\* returned -- which is also what any successful request returns as its
\* walking routes, whatever the feed did.
C6_FeedOutageWalkingOnly ==
    /\ FeedOutage => ppc # "threw" /\ busRoutes = <<>>
    /\ (ppc = "done" /\ FeedOutage) =>
          /\ apiResponse = "success"
          /\ \A k \in DOMAIN finalRoutes : finalRoutes[k].routeType = "walking"
          /\ finalRoutes = walkingRoutes
    /\ (ppc = "done" /\ apiResponse = "success") =>
          WalkingOf(finalRoutes) = walkingRoutes

\* a finished request whose feed requests all failed, one of them with a
\* non-200 response carrying departures, and which returned two walking routes
C6_Witness ==
    /\ ppc = "done"
    /\ FeedOutage
    /\ \E k \in DOMAIN feedLog : feedLog[k].kind = "http" /\ feedLog[k].deps # <<>>
    /\ Len(finalRoutes) = 2

\* C9: the walking routes returned by generateWalkingCandidates, and the
\* walking routes of the response, are at most two and have pairwise
\* different multisets of edge ids, whatever the three solves did.
C9_NoSharedFingerprint ==
    /\ Len(walkingRoutes) <= 2
    /\ PairwiseDifferent(walkingRoutes)
    /\ Len(WalkingOf(finalRoutes)) <= 2
    /\ PairwiseDifferent(WalkingOf(finalRoutes))

\* all three strategies found a path, the first two the same one, and two
\* routes were returned
C9_Witness ==
    /\ ppc = "done"
    /\ Len(solveLog) = NumStrategies
    /\ \A k \in DOMAIN solveLog : solveLog[k].kind = "path"
    /\ solveLog[1].edges = solveLog[2].edges
    /\ Len(WalkingOf(finalRoutes)) = 2

\* C10: when all three path solves find no path (the nearest vertices exist)
\* and no bus route survives, planRoutes returns an empty list.
C10_NoPathDropsCandidate ==
    ( /\ ppc = "done"
      /\ apiResponse = "success"
      /\ Len(solveLog) = NumStrategies
      /\ \A k \in DOMAIN solveLog : solveLog[k].kind = "nopath"
      /\ busRoutes = <<>> )
    => finalRoutes = <<>>

(***************************************************************************)
(* The shared RoutingEngine / DGVICalculator instances: operations that    *)
(* take a client from a pool, and the two lookup caches of the engine.     *)
(* The server is one process; tasks interleave at every await.             *)
(***************************************************************************)
OpKinds == {"gviPoints", "calculateSegmentDGVI", "getNextStopDirect",
            "getStopPointSiteCached"}
CacheOps == {"getNextStopDirect", "getStopPointSiteCached"}

\* stop points of sl_bus_stop_points / sl_bus_trips (line 1, direction 1)
StopKeys == {11, 21}

\* JavaScript null, and a result row
JsNull == [null |-> TRUE, row |-> <<>>]
JsRow(r) == [null |-> FALSE, row |-> r]

\* the row of sl_bus_stop_points for a stop point
StopSiteRow(stop) == JsRow([stop_point_id |-> stop, site_id |-> stop \div 10])

\* result.rows[0] || null of the next-stop query
NextStopRow(stop) ==
    IF stop = 11 THEN JsRow([next_stop_point_id |-> 21, next_site_id |-> 2])
    ELSE JsNull

\* await pool.connect(): resolves once the pool has a client to hand out
Connect(t, pool) ==
    /\ checkedOut[pool] < PoolSize
    /\ checkedOut' = [checkedOut EXCEPT ![pool] = @ + 1]
    /\ acquired' = [acquired EXCEPT ![t] = @ + 1]

\* client.release()
Release(t, pool) ==
    /\ checkedOut' = [checkedOut EXCEPT ![pool] = @ - 1]
    /\ released' = [released EXCEPT ![t] = @ + 1]

\* the operation of task t ends with result r
Finish(t, r) ==
    /\ opPc' = [opPc EXCEPT ![t] = "idle"]
    /\ opResult' = [opResult EXCEPT ![t] = r]

At(t, kind, pc) == opKind[t] = kind /\ opPc[t] = pc

\* a handler or a transfer search running as task t calls into the shared
\* instances
StartOperation(t) ==
    /\ opPc[t] = "idle"
    /\ opCount[t] < MaxOps
    /\ \E kind \in OpKinds :
         \E key \in (IF kind \in CacheOps THEN StopKeys ELSE {0}) :
            /\ opKind' = [opKind EXCEPT ![t] = kind]
            /\ opKey' = [opKey EXCEPT ![t] = key]
    /\ opPc' = [opPc EXCEPT ![t] = "start"]
    /\ opCount' = [opCount EXCEPT ![t] = @ + 1]
    /\ UNCHANGED <<opResult, checkedOut, acquired, released, stopSiteCache,
                   nextStopCache, cacheReads>>
    /\ UNCHANGED notEngineVars

\* GET /gvi-points/:month, validateMonth: the month fails the format test
GviPointsBadMonth(t) ==
    /\ At(t, "gviPoints", "start")
    /\ Finish(t, "400")
    /\ UNCHANGED <<opKind, opKey, opCount, checkedOut, acquired, released,
                   stopSiteCache, nextStopCache, cacheReads>>
    /\ UNCHANGED notEngineVars

\* validateMonth -> getAvailableMonths: pool.connect() of dgviCalculator
ValidateMonthConnect(t) ==
    /\ At(t, "gviPoints", "start")
    /\ Connect(t, "dgvi")
    /\ opPc' = [opPc EXCEPT ![t] = "validating"]
    /\ UNCHANGED <<opKind, opKey, opCount, opResult, released, stopSiteCache,
                   nextStopCache, cacheReads>>
    /\ UNCHANGED notEngineVars

\* getAvailableMonths returns (rows, or the fallback after an error) and
\* releases in its finally; the handler answers 400 or goes on
ValidateMonthReturns(t) ==
    /\ At(t, "gviPoints", "validating")
    /\ Release(t, "dgvi")
    /\ \E isValid \in BOOLEAN :
         IF isValid
         THEN /\ opPc' = [opPc EXCEPT ![t] = "waitPool"]
              /\ UNCHANGED opResult
         ELSE Finish(t, "400")
    /\ UNCHANGED <<opKind, opKey, opCount, acquired, stopSiteCache, nextStopCache,
                   cacheReads>>
    /\ UNCHANGED notEngineVars

\* const client = await routingEngine.pool.connect()
GviPointsConnect(t) ==
    /\ At(t, "gviPoints", "waitPool")
    /\ Connect(t, "engine")
    /\ opPc' = [opPc EXCEPT ![t] = "query"]
    /\ UNCHANGED <<opKind, opKey, opCount, opResult, released, stopSiteCache,
                   nextStopCache, cacheReads>>
    /\ UNCHANGED notEngineVars

\* client.query resolves; client.release(); res.json({ success: true, ... })
GviPointsQueryReturns(t) ==
    /\ At(t, "gviPoints", "query")
    /\ Release(t, "engine")
    /\ Finish(t, "200")
    /\ UNCHANGED <<opKind, opKey, opCount, acquired, stopSiteCache, nextStopCache,
                   cacheReads>>
    /\ UNCHANGED notEngineVars

\* client.query rejects (e.g. ?limit=abc gives LIMIT NaN): control goes to the
\* handler's catch, past client.release()
GviPointsQueryThrows(t) ==
    /\ At(t, "gviPoints", "query")
    /\ Finish(t, "500")
    /\ UNCHANGED <<opKind, opKey, opCount, checkedOut, acquired, released,
                   stopSiteCache, nextStopCache, cacheReads>>
    /\ UNCHANGED notEngineVars

\* calculateSegmentDGVI: const client = await this.pool.connect()
SegmentDGVIConnect(t) ==
    /\ At(t, "calculateSegmentDGVI", "start")
    /\ Connect(t, "dgvi")
    /\ opPc' = [opPc EXCEPT ![t] = "query"]
    /\ UNCHANGED <<opKind, opKey, opCount, opResult, released, stopSiteCache,
                   nextStopCache, cacheReads>>
    /\ UNCHANGED notEngineVars

\* the query resolves (return dgvi) or rejects (catch: return 0.0); finally
\* releases
SegmentDGVIQuery(t) ==
    /\ At(t, "calculateSegmentDGVI", "query")
    /\ Release(t, "dgvi")
    /\ \E ok \in BOOLEAN : Finish(t, IF ok THEN "dgvi" ELSE "zero")
    /\ UNCHANGED <<opKind, opKey, opCount, acquired, stopSiteCache, nextStopCache,
                   cacheReads>>
    /\ UNCHANGED notEngineVars

\* getNextStopDirect: nextStopCache.has(cacheKey) -> return the cached value
NextStopCacheHit(t) ==
    /\ At(t, "getNextStopDirect", "start")
    /\ opKey[t] \in DOMAIN nextStopCache
    /\ cacheReads' = cacheReads \cup
          { [cache |-> "nextStop", reader |-> t,
             writer |-> nextStopCache[opKey[t]].writer] }
    /\ Finish(t, "hit")
    /\ UNCHANGED <<opKind, opKey, opCount, checkedOut, acquired, released,
                   stopSiteCache, nextStopCache>>
    /\ UNCHANGED notEngineVars

NextStopCacheMiss(t) ==
    /\ At(t, "getNextStopDirect", "start")
    /\ opKey[t] \notin DOMAIN nextStopCache
    /\ opPc' = [opPc EXCEPT ![t] = "waitPool"]
    /\ UNCHANGED <<opKind, opKey, opCount, opResult, checkedOut, acquired, released,
                   stopSiteCache, nextStopCache, cacheReads>>
    /\ UNCHANGED notEngineVars

NextStopConnect(t) ==
    /\ At(t, "getNextStopDirect", "waitPool")
    /\ Connect(t, "engine")
    /\ opPc' = [opPc EXCEPT ![t] = "query"]
    /\ UNCHANGED <<opKind, opKey, opCount, opResult, released, stopSiteCache,
                   nextStopCache, cacheReads>>
    /\ UNCHANGED notEngineVars

\* the query resolves: nextStopCache.set(cacheKey, nextStop); finally releases
NextStopQueryReturns(t) ==
    /\ At(t, "getNextStopDirect", "query")
    /\ nextStopCache' = MapSet(nextStopCache, opKey[t],
                               [val |-> NextStopRow(opKey[t]), writer |-> t])
    /\ Release(t, "engine")
    /\ Finish(t, "row")
    /\ UNCHANGED <<opKind, opKey, opCount, acquired, stopSiteCache, cacheReads>>
    /\ UNCHANGED notEngineVars

\* the query rejects: finally releases, the error leaves getNextStopDirect
NextStopQueryThrows(t) ==
    /\ At(t, "getNextStopDirect", "query")
    /\ Release(t, "engine")
    /\ Finish(t, "threw")
    /\ UNCHANGED <<opKind, opKey, opCount, acquired, stopSiteCache, nextStopCache,
                   cacheReads>>
    /\ UNCHANGED notEngineVars

\* getStopPointSiteCached: stopSiteCache.has(stopPointId) -> the cached value
StopSiteCacheHit(t) ==
    /\ At(t, "getStopPointSiteCached", "start")
    /\ opKey[t] \in DOMAIN stopSiteCache
    /\ cacheReads' = cacheReads \cup
          { [cache |-> "stopSite", reader |-> t,
             writer |-> stopSiteCache[opKey[t]].writer] }
    /\ Finish(t, "hit")
    /\ UNCHANGED <<opKind, opKey, opCount, checkedOut, acquired, released,
                   stopSiteCache, nextStopCache>>
    /\ UNCHANGED notEngineVars

StopSiteCacheMiss(t) ==
    /\ At(t, "getStopPointSiteCached", "start")
    /\ opKey[t] \notin DOMAIN stopSiteCache
    /\ opPc' = [opPc EXCEPT ![t] = "waitPool"]
    /\ UNCHANGED <<opKind, opKey, opCount, opResult, checkedOut, acquired, released,
                   stopSiteCache, nextStopCache, cacheReads>>
    /\ UNCHANGED notEngineVars

\* getStopPointSite: const client = await this.pool.connect()
StopSiteConnect(t) ==
    /\ At(t, "getStopPointSiteCached", "waitPool")
    /\ Connect(t, "engine")
    /\ opPc' = [opPc EXCEPT ![t] = "query"]
    /\ UNCHANGED <<opKind, opKey, opCount, opResult, released, stopSiteCache,
                   nextStopCache, cacheReads>>
    /\ UNCHANGED notEngineVars

\* getStopPointSite returns the row, or null when the query rejects; finally
\* releases; getStopPointSiteCached stores whatever came back
StopSiteQuery(t) ==
    /\ At(t, "getStopPointSiteCached", "query")
    /\ Release(t, "engine")
    /\ \E ok \in BOOLEAN :
         /\ stopSiteCache' = MapSet(stopSiteCache, opKey[t],
               [val |-> IF ok THEN StopSiteRow(opKey[t]) ELSE JsNull, writer |-> t])
         /\ Finish(t, IF ok THEN "row" ELSE "null")
    /\ UNCHANGED <<opKind, opKey, opCount, acquired, nextStopCache, cacheReads>>
    /\ UNCHANGED notEngineVars

EngineInit ==
    BatchIdle /\ PlanIdle /\ EngineIdle /\ TransferIdle /\ RebuildIdle
    /\ SequenceIdle /\ RouteIdIdle

NextEngine ==
    \/ \E t \in Tasks : StartOperation(t)
    \/ \E t \in Tasks : GviPointsBadMonth(t)
    \/ \E t \in Tasks : ValidateMonthConnect(t)
    \/ \E t \in Tasks : ValidateMonthReturns(t)
    \/ \E t \in Tasks : GviPointsConnect(t)
    \/ \E t \in Tasks : GviPointsQueryReturns(t)
    \/ \E t \in Tasks : GviPointsQueryThrows(t)
    \/ \E t \in Tasks : SegmentDGVIConnect(t)
    \/ \E t \in Tasks : SegmentDGVIQuery(t)
    \/ \E t \in Tasks : NextStopCacheHit(t)
    \/ \E t \in Tasks : NextStopCacheMiss(t)
    \/ \E t \in Tasks : NextStopConnect(t)
    \/ \E t \in Tasks : NextStopQueryReturns(t)
    \/ \E t \in Tasks : NextStopQueryThrows(t)
    \/ \E t \in Tasks : StopSiteCacheHit(t)
    \/ \E t \in Tasks : StopSiteCacheMiss(t)
    \/ \E t \in Tasks : StopSiteConnect(t)
    \/ \E t \in Tasks : StopSiteQuery(t)

SpecEngine == EngineInit /\ [][NextEngine]_vars

(***************************************************************************)
(* Properties of the pools and the caches                                  *)
(***************************************************************************)
AllFinished == \A t \in Tasks : opPc[t] = "idle"

\* C7: every operation that takes a client from a pool releases it exactly
\* once on every exit path: a task never releases more than it acquired, and
\* once every task has finished its operations (normally or with an error)
\* each task has released as often as it acquired and no client is checked out.
C7_ReleasedOnAllPaths ==
    /\ \A t \in Tasks : released[t] <= acquired[t]
    /\ AllFinished =>
          /\ \A t \in Tasks : released[t] = acquired[t]
          /\ \A p \in Pools : checkedOut[p] = 0

BusOf(routes) == SelectSeq(routes, LAMBDA r : r.routeType # "walking")

Responded == ppc = "done" /\ apiResponse = "success"

\* min-max normalisation of x over the values xs, as the fraction num / den
\* (0 / 1 when all values are equal)
MinMaxNorm(x, xs) ==
    IF SeqMax(xs) > SeqMin(xs)
    THEN [num |-> x - SeqMin(xs), den |-> SeqMax(xs) - SeqMin(xs)]
    ELSE [num |-> 0, den |-> 1]

\* the scores the route r has, against the ones defined over the candidates:
\* durationScore = 1 - timeNorm, acDGVIScore = dgviNorm,
\* totalScore = 1 - (time * timeNorm + green * (1 - dgviNorm))
ScoredOver(r, cands) ==
    LET tn == MinMaxNorm(r.totalDuration,
                         [k \in DOMAIN cands |-> cands[k].totalDuration])
        gn == MinMaxNorm(r.totalAcDGVI,
                         [k \in DOMAIN cands |-> cands[k].totalAcDGVI])
    IN /\ r.durationScore * tn.den = (tn.den - tn.num) * r.scoreDen
       /\ r.acDGVIScore * gn.den = gn.num * r.scoreDen
       /\ r.totalScore * (PrefUnit * tn.den * gn.den)
            = ( PrefUnit * tn.den * gn.den
                - ( preferences.time * tn.num * gn.den
                    + preferences.green * (gn.den - gn.num) * tn.den ) )
              * r.scoreDen

\* C11: in a response every walking route carries the scores defined over the
\* surviving walking candidates, and every bus route the scores defined over
\* the surviving (scored) bus candidates.
C11_ScoresWithinCategory ==
    Responded =>
       /\ \A k \in DOMAIN WalkingOf(finalRoutes) :
             ScoredOver(WalkingOf(finalRoutes)[k], walkingRoutes)
       /\ \A k \in DOMAIN BusOf(finalRoutes) :
             ScoredOver(BusOf(finalRoutes)[k], WithWaitingDGVI(top5Routes))

\* C12: when exactly one bus candidate is scored, its timeNorm and dgviNorm
\* are 0 (durationScore = 1, acDGVIScore = 0) and its totalScore is 1,
\* whatever the preference vector.
C12_SingleCandidateScoresOne ==
    (Len(top5Routes) = 1 /\ Len(busRoutes) = 1) =>
       /\ busRoutes[1].durationScore = busRoutes[1].scoreDen
       /\ busRoutes[1].acDGVIScore = 0
       /\ busRoutes[1].totalScore = busRoutes[1].scoreDen

NonIncreasingScore(routes) ==
    \A a, b \in DOMAIN routes :
       a < b => routes[a].totalScore * routes[b].scoreDen
                  >= routes[b].totalScore * routes[a].scoreDen

\* the scored candidates as a list in arrival order (scores of one scoring
\* share scoreDen)
ScoredCandidates == ScoreBusRoutes(WithWaitingDGVI(top5Routes), preferences)

\* C13: the bus routes returned are at most two, they are scored candidates,
\* no candidate left out has a higher totalScore than one returned, and they
\* are in non-increasing totalScore order; the walking routes of a response
\* are in non-increasing totalScore order as well.
C13_TopTwoByScore ==
    /\ Len(busRoutes) <= 2
    /\ NonIncreasingScore(busRoutes)
    /\ ppc \in {"combine", "done"} =>
          /\ Len(busRoutes) = (IF Len(top5Routes) < 2 THEN Len(top5Routes) ELSE 2)
          /\ \A j \in DOMAIN busRoutes :
                /\ \E k \in DOMAIN ScoredCandidates :
                      ScoredCandidates[k] = busRoutes[j]
                /\ Cardinality({ k \in DOMAIN ScoredCandidates :
                                   ScoredCandidates[k].totalScore
                                     > busRoutes[j].totalScore }) <= j - 1
    /\ Responded =>
          /\ BusOf(finalRoutes) = busRoutes
          /\ NonIncreasingScore(WalkingOf(finalRoutes))

\* three candidates were scored, two returned with different scores, and the
\* best one is not the earliest to arrive
C13_Witness ==
    /\ Responded
    /\ Len(top5Routes) = 3
    /\ Len(busRoutes) = 2
    /\ busRoutes[1].totalScore > busRoutes[2].totalScore
    /\ busRoutes[1].journeyId # top5Routes[1].journeyId
    /\ Len(WalkingOf(finalRoutes)) = 2

(***************************************************************************)
(* Properties of the direct routes                                         *)
(***************************************************************************)
DirectOf(routes) == SelectSeq(routes, LAMBDA r : r.routeType = "direct_bus")

RideOf(route) ==
    route.segments[CHOOSE k \in DOMAIN route.segments :
                      route.segments[k].type = "bus_ride"]

\* r is feasible: its journey departs from origin site o (departure od) and
\* from a destination site (departure dd) with equal line and direction, the
\* departure stop is reached 60 s before od leaves (walking at 1.4 m/s, now is
\* 0), and the ride takes more than 0 and at most MaxBusDuration seconds
Feasible(r) ==
    \E k \in DOMAIN originSites, m \in DOMAIN destinationSites :
      LET o == originSites[k]
          d == destinationSites[m]
          oDeps == CacheGet(departuresCache, o.siteId)
          dDeps == CacheGet(departuresCache, d.siteId)
      IN \E a \in DOMAIN oDeps, b \in DOMAIN dDeps :
            LET od == oDeps[a]
                dd == dDeps[b]
            IN /\ od.journey = r.journeyId /\ dd.journey = r.journeyId
               /\ od.line = dd.line /\ od.dir = dd.dir
               /\ o.siteId = r.originSiteId /\ d.siteId = r.destSiteId
               /\ RideOf(r).expectedDeparture = od.expected
               /\ RideOf(r).expectedArrival = dd.expected
               /\ RideOf(r).lineId = od.line
               /\ o.walkingDistance * WalkingSpeedDen
                     + BoardingMargin * WalkingSpeedNum
                  <= od.expected * WalkingSpeedNum
               /\ dd.expected - od.expected > 0
               /\ dd.expected - od.expected <= MaxBusDuration

\* C14: every direct_bus route emitted by findDirectRoutes is feasible: its
\* journey occurs in the departures of an origin site and of a destination site
\* with equal line id and direction code, walkingTimeToDep + 60 s <=
\* expectedDeparture - now with walkingTimeToDep = walkingDistance / 1.4, and
\* 0 < destExpected - origExpected <= maxDuration.
C14_DirectRoutesFeasible ==
    /\ \A k \in DOMAIN top5Routes : Feasible(top5Routes[k])
    /\ \A k \in DOMAIN busRoutes : Feasible(busRoutes[k])
    /\ \A k \in DOMAIN DirectOf(finalRoutes) : Feasible(DirectOf(finalRoutes)[k])

\* a request that emitted a direct route while the loaded departures held a
\* journey at an origin and a destination site that had to be rejected: one
\* with a different direction code at the two sites, and one that leaves the
\* far origin site before it can be reached on foot
C14_Witness ==
    /\ Responded
    /\ Len(originSites) = 2 /\ Len(destinationSites) = 1
    /\ destinationSites[1].siteId = 3
    /\ \A k \in DOMAIN feedLog : feedLog[k].status = 200 /\ Len(feedLog[k].deps) = 5
    /\ DirectOf(finalRoutes) # <<>>
    /\ \A k \in DOMAIN top5Routes : top5Routes[k].journeyId # 5
    /\ \E k \in DOMAIN top5Routes : top5Routes[k].originSiteId = 2

FirstSegment(r) == r.segments[1]
LastSegment(r) == r.segments[Len(r.segments)]

\* C15: in every direct_bus route the first walking segment is solved from the
\* request origin to the departure stop point and the last from the arrival
\* stop point to the request destination, and the route's origin and
\* destination fields equal the request's origin and destination.
C15_WalksFromRequestEndpoints ==
    \A k \in DOMAIN DirectOf(finalRoutes) :
       LET r == DirectOf(finalRoutes)[k] IN
       /\ r.origin = RequestOrigin
       /\ r.destination = RequestDestination
       /\ FirstSegment(r).type = "walking" =>
             /\ FirstSegment(r).startPoint = RequestOrigin
             /\ FirstSegment(r).endPoint = StopPoint(RideOf(r).startStopId)
       /\ LastSegment(r).type = "walking" =>
             /\ LastSegment(r).startPoint = StopPoint(RideOf(r).endStopId)
             /\ LastSegment(r).endPoint = RequestDestination

\* C16: within one planning request each distinct site id is requested from
\* the transit feed at most once, also when the same site is near both the
\* origin and the destination.
C16_EachSiteRequestedOnce ==
    \A a, b \in DOMAIN feedLog : a < b => feedLog[a].site # feedLog[b].site

(***************************************************************************)
(* RoutingEngine.findTransferRoutes                                        *)
(***************************************************************************)
\* JavaScript numbers of the duration arithmetic: an integer or NaN
Num(x) == [nan |-> FALSE, v |-> x]
NaN == [nan |-> TRUE, v |-> 0]
JsAdd(a, b) == IF a.nan \/ b.nan THEN NaN ELSE Num(a.v + b.v)
JsSub(a, b) == IF a.nan \/ b.nan THEN NaN ELSE Num(a.v - b.v)
\* Math.max returns NaN when an argument is NaN
JsMax(a, b) == IF a.nan \/ b.nan THEN NaN ELSE Num(IF a.v > b.v THEN a.v ELSE b.v)
\* a comparison with NaN is false
JsGt(a, b) == ~a.nan /\ ~b.nan /\ a.v > b.v
\* x / this.walkingSpeed
JsDivBySpeed(a) ==
    IF a.nan THEN NaN ELSE Num((a.v * WalkingSpeedDen) \div WalkingSpeedNum)

\* obj.name: << v >> for a property the object has, << >> for undefined
Prop(obj, name) == IF name \in DOMAIN obj THEN << obj[name] >> ELSE << >>
\* undefined becomes NaN in arithmetic
ToNumber(p) == IF p = << >> THEN NaN ELSE Num(p[1])

\* limits of the search: agents per origin site, hops per agent, departures
\* scanned and connections kept per transfer site, connections tried per hop,
\* routes per agent, routes in total
AgentsPerSite == 10
\* depth of the forward walk of checkJourneyDestinations
DestinationSearchDepth == 20
TransferSearchDepth == 10
ScannedDepartures == 10
ConnectionsKept == 5
ConnectionsTried == 2
RoutesPerAgent == 2
RoutesInTotal == 20

\* this.transferMargin, the average time between two stops, and the estimated
\* second ride (seconds)
TransferMargin == 60
AvgStopTime == 90
SecondBusRide == 600

\* sl_bus_stop_points: stop point s belongs to site s \div 10 and lies on one
\* parallel, lon in metres along it
KnownStops == {11, 12, 21, 22, 31, 32, 41, 42}

\* getStopPointSite
GetStopPointSite(stopPointId) ==
    IF stopPointId \in KnownStops
    THEN JsRow([stop_point_id |-> stopPointId, site_id |-> stopPointId \div 10,
                stop_name |-> stopPointId, lat |-> 0,
                lon |-> 1000 * (stopPointId \div 10) + 70 * (stopPointId % 10)])
    ELSE JsNull

\* the row of sl_bus_trips the lookup reads (LIMIT 1) joined with
\* sl_bus_stop_points: its next_stop_point_id, 0 when there is none
TripNext(lineId, directionCode, stopPointId) ==
    LET rows == { row \in slBusTrips :
                    /\ row.line_id = lineId
                    /\ row.direction_code = directionCode
                    /\ row.stop_point_id = stopPointId
                    /\ row.next_stop_point_id \in KnownStops }
    IN IF rows = {} THEN 0
       ELSE (CHOOSE row \in rows : TRUE).next_stop_point_id

\* getNextStopDirect: result.rows[0] || null (the cache returns the same value)
GetNextStopDirect(lineId, directionCode, currentStopId) ==
    LET n == TripNext(lineId, directionCode, currentStopId) IN
    IF n = 0 THEN JsNull
    ELSE JsRow([next_stop_point_id |-> n, next_site_id |-> n \div 10,
                next_name |-> n])

\* sites of the stops that follow currentStopId within depth hops
RECURSIVE JourneyPath(_, _, _, _)
JourneyPath(lineId, directionCode, currentStopId, depth) ==
    LET n == TripNext(lineId, directionCode, currentStopId) IN
    IF depth = 0 \/ n = 0 THEN {}
    ELSE {n \div 10} \cup JourneyPath(lineId, directionCode, n, depth - 1)

\* checkJourneyDestinations: the destination sites among them, in the order of
\* destinationSites
CheckJourneyDestinations(lineId, directionCode, currentStopId, dSites) ==
    SelectSeq(SiteIdsOf(dSites),
              LAMBDA id : id \in JourneyPath(lineId, directionCode, currentStopId,
                                             DestinationSearchDepth))

\* the loop of findConnectionsFromCachedDepartures, processedKeys being the
\* stop/direction keys seen so far
RECURSIVE ConnectionsFrom(_, _, _, _, _)
ConnectionsFrom(deps, processedKeys, dSites, earliestTime, transferSiteId) ==
    IF deps = <<>> THEN <<>>
    ELSE LET dep == Head(deps)
             stopKey == << dep.stop, dep.dir >>
         IN IF dep.expected < earliestTime \/ stopKey \in processedKeys
            THEN ConnectionsFrom(Tail(deps), processedKeys, dSites, earliestTime,
                                 transferSiteId)
            ELSE LET reachable == CheckJourneyDestinations(dep.line, dep.dir,
                                                           dep.stop, dSites)
                 IN [k \in DOMAIN reachable |->
                        [journeyId |-> dep.journey, lineId |-> dep.line,
                         departureTime |-> dep.expected,
                         departureStopId |-> dep.stop,
                         transferSiteId |-> transferSiteId,
                         destSiteId |-> reachable[k],
                         destSite |-> FindSite(dSites, reachable[k]),
                         directionCode |-> dep.dir]]
                    \o ConnectionsFrom(Tail(deps), processedKeys \cup {stopKey},
                                       dSites, earliestTime, transferSiteId)

\* findConnectionsFromCachedDepartures
FindConnectionsFromCachedDepartures(deps, dSites, earliestTime, transferSiteId) ==
    Slice(ConnectionsFrom(Slice(deps, ScannedDepartures), {}, dSites,
                          earliestTime, transferSiteId),
          ConnectionsKept)

Abs(x) == IF x < 0 THEN -x ELSE x

\* calculateStopPointDistance: the great-circle distance, NaN when a
\* coordinate is undefined
CalculateStopPointDistance(stop1, stop2) ==
    LET lat1 == ToNumber(Prop(stop1, "lat"))
        lat2 == ToNumber(Prop(stop2, "lat"))
        lon1 == ToNumber(Prop(stop1, "lon"))
        lon2 == ToNumber(Prop(stop2, "lon"))
    IN IF lat1.nan \/ lat2.nan \/ lon1.nan \/ lon2.nan THEN NaN
       ELSE Num(Abs(lat2.v - lat1.v) + Abs(lon2.v - lon1.v))

\* SegmentFactory.createBusRideSegment as createTransferRoute calls it
CreateBusRideSegment(duration, startStop, endStop, expectedDeparture) ==
    [type |-> "bus_ride", duration |-> duration,
     startStopId |-> Prop(startStop, "stop_point_id"),
     endStopId |-> Prop(endStop, "stop_point_id"),
     expectedDeparture |-> expectedDeparture]

\* RoutePlan.createTransferRoute
CreateTransferRoute(cfg) ==
    [routeType |-> "transfer_bus",
     segments |->
        (IF JsGt(cfg.walkingToFirst, Num(0))
         THEN << [type |-> "walking", subtype |-> "none",
                  duration |-> cfg.walkingToFirst] >>
         ELSE <<>>)
        \o << [type |-> "bus_waiting", duration |-> Num(0)],
              CreateBusRideSegment(cfg.firstBusRideDuration, cfg.firstDepartureStop,
                                   cfg.transferArrivalStop, cfg.firstDeparture) >>
        \o (IF JsGt(cfg.intraSiteWalk, Num(0))
            THEN << [type |-> "walking", subtype |-> "intra_site_transfer",
                     duration |-> cfg.intraSiteWalk] >>
            ELSE <<>>)
        \o << [type |-> "bus_waiting", duration |-> cfg.transferWaiting],
              CreateBusRideSegment(cfg.secondBusRideDuration,
                                   cfg.transferDepartureStop, cfg.finalArrivalStop,
                                   cfg.secondDeparture) >>
        \o (IF JsGt(cfg.walkingFromFinal, Num(0))
            THEN << [type |-> "walking", subtype |-> "none",
                     duration |-> cfg.walkingFromFinal] >>
            ELSE <<>>),
     totalDuration |-> cfg.totalDuration,
     origin |-> cfg.origin,
     destination |-> cfg.destination,
     journeyId |-> cfg.journeyId,
     transferStopId |-> cfg.transferStopId,
     totalAcDGVI |-> 0] @@ UnscoredFields

\* createTransferRoutePlan: null, or the route
CreateTransferRoutePlan(agent, transferStop, nextStopSite, connection, maxDuration, transferArrivalTime) ==
    LET transferArrivalStopInfo == nextStopSite
        transferDepartureStopInfo == GetStopPointSite(connection.departureStopId)
    IN IF transferDepartureStopInfo.null THEN JsNull
       ELSE
       LET differ == Prop(transferArrivalStopInfo, "stop_point_id")
                     # Prop(transferDepartureStopInfo.row, "stop_point_id")
           intraSiteDistance ==
               IF differ
               THEN CalculateStopPointDistance(transferArrivalStopInfo,
                                               transferDepartureStopInfo.row)
               ELSE Num(0)
           intraSiteWalk == IF differ THEN JsDivBySpeed(intraSiteDistance) ELSE Num(0)
           walkingToFirst == JsDivBySpeed(Num(agent.originSite.walkingDistance))
           firstBusRide == Num(transferArrivalTime - agent.nominalTime)
           transferWaiting ==
               JsMax(JsSub(Num(connection.departureTime - transferArrivalTime),
                           intraSiteWalk),
                     Num(TransferMargin))
           walkingFromFinal == JsDivBySpeed(Num(connection.destSite.walkingDistance))
           totalDuration ==
               JsAdd(JsAdd(JsAdd(JsAdd(JsAdd(walkingToFirst, firstBusRide),
                                       intraSiteWalk),
                                 transferWaiting),
                           Num(SecondBusRide)),
                     walkingFromFinal)
       IN IF JsGt(totalDuration, Num(maxDuration)) THEN JsNull
          ELSE JsRow(CreateTransferRoute(
                 [origin |-> SitePoint(agent.originSite.siteId),
                  destination |-> SitePoint(connection.destSite.siteId),
                  walkingToFirst |-> walkingToFirst,
                  firstDepartureStop |-> agent.departureStopInfo,
                  firstDeparture |-> agent.nominalTime,
                  firstBusRideDuration |-> firstBusRide,
                  transferArrivalStop |-> transferArrivalStopInfo,
                  transferDepartureStop |-> transferDepartureStopInfo.row,
                  intraSiteWalk |-> intraSiteWalk,
                  transferWaiting |-> transferWaiting,
                  secondDeparture |-> connection.departureTime,
                  secondBusRideDuration |-> Num(SecondBusRide),
                  finalArrivalStop |-> transferDepartureStopInfo.row,
                  walkingFromFinal |-> walkingFromFinal,
                  totalDuration |-> totalDuration,
                  journeyId |-> agent.journeyId,
                  transferStopId |-> transferStop.next_stop_point_id]))

\* the loop over connections.slice(0, 2) of one hop: routes are pushed until
\* the agent has two
RECURSIVE PushTransferRoutes(_, _, _, _, _, _)
PushTransferRoutes(found, connections, agent, nextStopInfo, maxDuration, estimatedTime) ==
    IF connections = <<>> \/ Len(found) >= RoutesPerAgent THEN found
    ELSE LET connection == Head(connections)
             transferRoute ==
                 CreateTransferRoutePlan(
                     agent,
                     [next_stop_point_id |-> nextStopInfo.next_stop_point_id,
                      next_name |-> nextStopInfo.next_name],
                     [site_id |-> nextStopInfo.next_site_id,
                      stop_name |-> nextStopInfo.next_name],
                     connection, maxDuration, estimatedTime)
             pushed == IF connection.departureTime - estimatedTime >= 60
                          /\ ~transferRoute.null
                       THEN Append(found, transferRoute.row)
                       ELSE found
         IN PushTransferRoutes(pushed, Tail(connections), agent, nextStopInfo,
                               maxDuration, estimatedTime)

\* the hops of findTransferChainCached from stepCount on: the routes found
\* and the number of getNextStopDirect calls made
RECURSIVE TransferChainFrom(_, _, _, _, _, _, _, _)
TransferChainFrom(stepCount, currentStopId, estimatedTime, found, agent, dSites, maxDuration, cache) ==
    IF stepCount >= TransferSearchDepth
    THEN [routes |-> found, lookups |-> stepCount]
    ELSE LET next == GetNextStopDirect(agent.lineId, agent.directionCode,
                                       currentStopId)
             ended == [routes |-> found, lookups |-> stepCount + 1]
         IN IF next.null THEN ended
            ELSE
            LET arrival == estimatedTime + AvgStopTime
                transferTime == arrival + TransferMargin
                connections ==
                    FindConnectionsFromCachedDepartures(
                        CacheGet(cache, next.row.next_site_id), dSites,
                        transferTime, next.row.next_site_id)
                after == PushTransferRoutes(found,
                                            Slice(connections, ConnectionsTried),
                                            agent, next.row, maxDuration, arrival)
            IN IF transferTime - agent.nominalTime > maxDuration THEN ended
               ELSE IF Len(after) >= RoutesPerAgent
                    THEN [routes |-> after, lookups |-> stepCount + 1]
               ELSE TransferChainFrom(stepCount + 1,
                                      next.row.next_stop_point_id, arrival, after,
                                      agent, dSites, maxDuration, cache)

\* findTransferChainCached
FindTransferChainCached(agent, dSites, maxDuration, cache) ==
    TransferChainFrom(0, agent.currentStopId, agent.nominalTime, <<>>, agent,
                      dSites, maxDuration, cache).routes

\* the getNextStopDirect calls of that call
ChainLookups(agent, dSites, maxDuration, cache) ==
    TransferChainFrom(0, agent.currentStopId, agent.nominalTime, <<>>, agent,
                      dSites, maxDuration, cache).lookups

\* the agents findTransferRoutes creates for one origin site
AgentsOf(originSite, deps) ==
    LET limited == SelectSeq(Slice(deps, AgentsPerSite),
                             LAMBDA dep : ~GetStopPointSite(dep.stop).null)
    IN [k \in DOMAIN limited |->
           [journeyId |-> limited[k].journey, lineId |-> limited[k].line,
            directionCode |-> limited[k].dir,
            currentStopId |-> limited[k].stop,
            nominalTime |-> limited[k].expected,
            originSite |-> originSite,
            departureStopInfo |-> GetStopPointSite(limited[k].stop).row]]

\* originDepartures is a Map keyed by site id: a site listed twice is visited
\* once, at its first position
RECURSIVE CreateAgents(_, _, _, _)
CreateAgents(sites, seen, oSites, cache) ==
    IF sites = <<>> THEN <<>>
    ELSE IF Head(sites).siteId \in seen
         THEN CreateAgents(Tail(sites), seen, oSites, cache)
         ELSE AgentsOf(FindSite(oSites, Head(sites).siteId),
                       CacheGet(cache, Head(sites).siteId))
              \o CreateAgents(Tail(sites), seen \cup {Head(sites).siteId},
                              oSites, cache)

\* the loop of findTransferRoutes over the agents from index k on
RECURSIVE CollectTransfers(_, _, _, _, _, _)
CollectTransfers(agents, k, collected, dSites, maxDuration, cache) ==
    IF k > Len(agents) THEN collected
    ELSE LET transfers == FindTransferChainCached(agents[k], dSites, maxDuration,
                                                  cache)
             pushed == collected \o transfers
         IN IF Len(pushed) >= RoutesInTotal THEN pushed
            ELSE CollectTransfers(agents, k + 1, pushed, dSites, maxDuration, cache)

\* findTransferRoutes
FindTransferRoutes(oSites, dSites, maxDuration, cache) ==
    CollectTransfers(CreateAgents(oSites, {}, oSites, cache), 1, <<>>, dSites,
                     maxDuration, cache)

(***************************************************************************)
(* findTransferRoutes, agent by agent                                      *)
(***************************************************************************)
\* the sites found near the two endpoints of the calls considered
TransferOrigins ==
    { << Site(1, 140) >>,
      << Site(1, 0), Site(2, 1400) >>,
      << Site(1, 140), Site(2, 1400) >>,
      << Site(1, 140), Site(2, 1400), Site(4, 280) >> }
TransferDestinations == { << Site(3, 70) >>, << Site(3, 0) >> }

\* n departures of one line from a stop at time t, journeys first + 1 ...
Run(first, n, line, stop, t) ==
    [k \in 1..n |-> Dep(first + k, line, 1, stop, t, "BUS")]

\* numbers of early and of late departures of an origin site
EarlyCounts == {0, 1, 9, 10, 11}
LateCounts == {0, 1}

\* departures loaded for a site: sites 1 and 4 are served by one line towards
\* site 2 (line 2 from stop 11, line 4 from stop 41, early ones first), site 1
\* possibly also by a stop point missing from sl_bus_stop_points; site 2 is
\* served by line 2 towards site 3 from its two stop points
LoadedFor(site) ==
    IF site \in {1, 4}
    THEN UNION { { Run(100 * site, e, IF site = 1 THEN 2 ELSE 4, 10 * site + 1, 300)
                   \o Run(100 * site + 50, l, IF site = 1 THEN 2 ELSE 4,
                          10 * site + 1, 700)
                   \o u :
                     u \in IF site = 1 /\ e = 1
                           THEN { <<>>, << Dep(190, 2, 1, 13, 300, "BUS") >> }
                           ELSE { <<>> } } :
                 e \in EarlyCounts, l \in LateCounts }
    ELSE IF site = 2
    THEN { <<>>,
           << Dep(21, 2, 1, 21, 600, "BUS") >>,
           << Dep(21, 2, 1, 21, 600, "BUS"), Dep(22, 2, 1, 22, 1100, "BUS") >>,
           << Dep(21, 2, 1, 21, 600, "BUS"), Dep(23, 2, 1, 21, 660, "BUS"),
              Dep(22, 2, 1, 22, 1100, "BUS") >> }
    ELSE { <<>> }

\* the Maps getBatchDepartures may have returned for a list of site ids
RECURSIVE CachesFor(_)
CachesFor(ids) ==
    IF ids = <<>> THEN { <<>> }
    ELSE { MapSet(c, ids[Len(ids)], f) :
              c \in CachesFor(SubSeq(ids, 1, Len(ids) - 1)),
              f \in LoadedFor(ids[Len(ids)]) }

TransferInit ==
    /\ BatchIdle
    /\ EngineIdle
    /\ RebuildIdle
    /\ RouteIdIdle
    /\ slBusTrips \in TripTables
    /\ buildRuns = 0
    /\ ppc = "idle"
    /\ preferences = DefaultPreferences
    /\ strategyIdx = 1
    /\ candidates = <<>>
    /\ walkingRoutes = <<>>
    /\ \E o \in TransferOrigins, d \in TransferDestinations :
          /\ originSites = o
          /\ destinationSites = d
          /\ departuresCache \in CachesFor(SiteIdsOf(o) \o SiteIdsOf(d))
    /\ top5Routes = <<>>
    /\ busRoutes = <<>>
    /\ finalRoutes = <<>>
    /\ apiResponse = "none"
    /\ cancelled = FALSE
    /\ batchesAfterCancel = 0
    /\ solveLog = <<>>
    /\ feedLog = <<>>
    /\ maxResults = DefaultMaxResults
    /\ tpc = "agents"
    /\ queryAgents = <<>>
    /\ agentIdx = 1
    /\ transferRoutes = <<>>
    /\ chainLog = <<>>
    /\ lookupLog = <<>>

\* Step 1: one agent per origin departure, at most 10 per site
CreateQueryAgents ==
    /\ tpc = "agents"
    /\ queryAgents' = CreateAgents(originSites, {}, originSites, departuresCache)
    /\ tpc' = "search"
    /\ UNCHANGED <<agentIdx, transferRoutes, chainLog, lookupLog>>
    /\ UNCHANGED notTransferVars

\* pool.connect() rejects in getStopPointSite while the agents are created:
\* the catch of findTransferRoutes returns []
CreateQueryAgentsThrows ==
    /\ tpc = "agents"
    /\ \E k \in DOMAIN originSites :
          CacheGet(departuresCache, originSites[k].siteId) # <<>>
    /\ tpc' = "failed"
    /\ UNCHANGED <<queryAgents, agentIdx, transferRoutes, chainLog, lookupLog>>
    /\ UNCHANGED notTransferVars

\* Step 3, one iteration of the loop over the agents: findTransferChainCached,
\* push, and the test that ends the loop
ProcessAgent ==
    /\ tpc = "search"
    /\ agentIdx <= Len(queryAgents)
    /\ LET transfers == FindTransferChainCached(queryAgents[agentIdx],
                                                destinationSites, MaxBusDuration,
                                                departuresCache)
       IN /\ transferRoutes' = transferRoutes \o transfers
          /\ chainLog' = Append(chainLog, transfers)
          /\ lookupLog' = Append(lookupLog,
                                 ChainLookups(queryAgents[agentIdx],
                                              destinationSites, MaxBusDuration,
                                              departuresCache))
          /\ tpc' = IF Len(transferRoutes \o transfers) >= RoutesInTotal
                    THEN "done" ELSE "search"
    /\ agentIdx' = agentIdx + 1
    /\ UNCHANGED queryAgents
    /\ UNCHANGED notTransferVars

\* the loop has gone through every agent
TransferReturn ==
    /\ tpc = "search"
    /\ agentIdx > Len(queryAgents)
    /\ tpc' = "done"
    /\ UNCHANGED <<queryAgents, agentIdx, transferRoutes, chainLog, lookupLog>>
    /\ UNCHANGED notTransferVars

NextTransfer ==
    \/ CreateQueryAgents
    \/ CreateQueryAgentsThrows
    \/ ProcessAgent
    \/ TransferReturn

SpecTransfer == TransferInit /\ [][NextTransfer]_vars

\* the loop returns what findTransferRoutes computes as a function of its
\* arguments
TransferLoopAgrees ==
    tpc = "done" =>
       transferRoutes = FindTransferRoutes(originSites, destinationSites,
                                           MaxBusDuration, departuresCache)

(***************************************************************************)
(* Properties of the transfer search                                       *)
(***************************************************************************)
TransferOf(routes) == SelectSeq(routes, LAMBDA r : r.routeType = "transfer_bus")

\* C17: whenever findTransferRoutes would emit at least one itinerary for the
\* request's origin sites, destination sites and loaded departures, and fewer
\* than two direct candidates exist, the result of planRoutes contains a route
\* of type transfer_bus.
C17_TransferRoutesOffered ==
    ( /\ Responded
      /\ Len(top5Routes) < 2
      /\ FindTransferRoutes(originSites, destinationSites, MaxBusDuration,
                            departuresCache) # <<>> )
    => TransferOf(finalRoutes) # <<>>

\* C18: findTransferChainCached returns at most 2 itineraries per agent and
\* findTransferRoutes returns at most 20 itineraries in total.
C18_TransferEmissionsBounded ==
    /\ \A k \in DOMAIN chainLog : Len(chainLog[k]) <= 2
    /\ tpc \in {"done", "failed"} => Len(transferRoutes) <= 20

RidesOf(r) == SelectSeq(r.segments, LAMBDA seg : seg.type = "bus_ride")

\* a walking segment of subtype intra-site transfer lies between the two rides
IntraSiteWalkBetweenRides(r) ==
    \E a, m, b \in DOMAIN r.segments :
       /\ a < m /\ m < b
       /\ r.segments[a].type = "bus_ride"
       /\ r.segments[b].type = "bus_ride"
       /\ r.segments[m].type = "walking"
       /\ r.segments[m].subtype = "intra_site_transfer"

\* C19: every transfer_bus route built by createTransferRoutePlan has exactly
\* two bus_ride segments, and the stop point where the first ride ends and the
\* stop point where the second ride starts either are the same stop_point_id
\* or are separated by an intra-site-transfer walking segment placed between
\* the two rides.
C19_TransferStopsConnected ==
    \A k \in DOMAIN transferRoutes :
       LET r == transferRoutes[k] IN
       /\ Len(RidesOf(r)) = 2
       /\ \/ /\ RidesOf(r)[1].endStopId # << >>
             /\ RidesOf(r)[1].endStopId = RidesOf(r)[2].startStopId
          \/ IntraSiteWalkBetweenRides(r)

RECURSIVE SumDurations(_)
SumDurations(segs) ==
    IF segs = <<>> THEN 0 ELSE Head(segs).duration + SumDurations(Tail(segs))

RECURSIVE JsSumDurations(_)
JsSumDurations(segs) ==
    IF segs = <<>> THEN Num(0)
    ELSE JsAdd(Head(segs).duration, JsSumDurations(Tail(segs)))

\* the walking and direct_bus routes of a planning request: the segment
\* durations add up to totalDuration within 1 s
PlannedDurationsAddUp ==
    \A routes \in {candidates, walkingRoutes, top5Routes, busRoutes, finalRoutes} :
       \A k \in DOMAIN routes :
          Abs(SumDurations(routes[k].segments) - routes[k].totalDuration) <= 1

\* the transfer_bus routes: totalDuration is a number, and so is the sum of the
\* segment durations, within 1 s of it
TransferDurationsAddUp ==
    \A k \in DOMAIN transferRoutes :
       LET r == transferRoutes[k] IN
       /\ ~r.totalDuration.nan
       /\ ~JsSumDurations(r.segments).nan
       /\ Abs(JsSumDurations(r.segments).v - r.totalDuration.v) <= 1

\* C20: for every RoutePlan the engine builds (walking, direct_bus,
\* transfer_bus) totalDuration is a number and the sum of the durations of its
\* segments equals it within 1 s, also when a walking sub-segment has zero
\* duration and is omitted.
C20_DurationsAddUp == PlannedDurationsAddUp /\ TransferDurationsAddUp

(***************************************************************************)
(* DGVICalculator.calculateSegmentDGVI                                     *)
(***************************************************************************)
\* positions along an edge and gvi values are kept in tenths; a DGVI is kept
\* as its numerator over PosUnit * 2 * GviUnit
PosUnit == 10
GviUnit == 10

GviPoint(p, v) == [position |-> p, gvi_value |-> v]

\* matched_gvi_points: the GVI points of the month within the 1 m buffer of
\* the edge, by position. In 2025-07 road 2 has none; in 2025-08 every matched
\* point has gvi 1.0.
MatchedGviPoints(roadId, month) ==
    IF month = "2025-07"
    THEN CASE roadId = 1 -> << GviPoint(5, 20) >>
           [] roadId = 2 -> << >>
           [] roadId = 3 -> << GviPoint(0, 5), GviPoint(10, 30) >>
    ELSE CASE roadId = 1 -> << GviPoint(5, 10) >>
           [] roadId = 2 -> << GviPoint(3, 10) >>
           [] roadId = 3 -> << GviPoint(2, 10), GviPoint(7, 10) >>

\* points_with_endpoints: position 0.0 and 1.0 are added when no matched point
\* has them, with the gvi of the first / last matched point, 0.0 without one
PointsWithEndpoints(matched) ==
    (IF \E k \in DOMAIN matched : matched[k].position = 0 THEN << >>
     ELSE << GviPoint(0, IF matched = << >> THEN 0 ELSE matched[1].gvi_value) >>)
    \o matched
    \o (IF \E k \in DOMAIN matched : matched[k].position = PosUnit THEN << >>
        ELSE << GviPoint(PosUnit, IF matched = << >> THEN 0
                                  ELSE matched[Len(matched)].gvi_value) >>)

\* SUM((end_pos - start_pos) * total_length * ((start_gvi + end_gvi) / 2.0 - 1.0))
\* over the intervals of consecutive points
RECURSIVE SumIntervals(_, _)
SumIntervals(points, totalLength) ==
    IF Len(points) < 2 THEN 0
    ELSE (points[2].position - points[1].position) * totalLength
           * (points[1].gvi_value + points[2].gvi_value - 2 * GviUnit)
         + SumIntervals(Tail(points), totalLength)

\* the value calculateSegmentDGVI returns when its query succeeds
CalculateSegmentDGVI(roadId, month) ==
    SumIntervals(PointsWithEndpoints(MatchedGviPoints(roadId, month)),
                 EdgeLength(roadId))

(***************************************************************************)
(* DGVICalculator.updateAllRoadDGVI                                        *)
(***************************************************************************)
\* rebuilds started in a run of the model
MaxRuns == 2

Row(dgvi, norm) == [present |-> TRUE, dgvi |-> dgvi, dgvi_normalized |-> norm]

\* an insert that leaves an existing row alone (ON CONFLICT DO NOTHING)
InsertIfAbsent(table, roadId, month, dgvi) ==
    IF table[<<roadId, month>>].present THEN table
    ELSE [table EXCEPT ![<<roadId, month>>] = Row(dgvi, SqlNull)]

\* INSERT ... ON CONFLICT (road_id, month) DO UPDATE SET dgvi = $3: a new row
\* has dgvi_normalized NULL, an existing one keeps its dgvi_normalized
UpsertRow(table, roadId, month, dgvi) ==
    [table EXCEPT ![<<roadId, month>>] =
        IF @.present THEN Row(dgvi, @.dgvi_normalized) ELSE Row(dgvi, SqlNull)]

\* the rows of a month
MonthKeys(table, month) ==
    { key \in DOMAIN table : key[2] = month /\ table[key].present }

MinDgvi(table, month) ==
    CHOOSE x \in { table[key].dgvi : key \in MonthKeys(table, month) } :
       \A key \in MonthKeys(table, month) : x <= table[key].dgvi
MaxDgvi(table, month) ==
    CHOOSE x \in { table[key].dgvi : key \in MonthKeys(table, month) } :
       \A key \in MonthKeys(table, month) : x >= table[key].dgvi

\* the CASE of the UPDATE: a fraction num / den
Normalized(dgvi, minDgvi, maxDgvi) ==
    IF maxDgvi = minDgvi THEN [num |-> 0, den |-> 1]
    ELSE [num |-> dgvi - minDgvi, den |-> maxDgvi - minDgvi]

\* WITH stats AS (SELECT MIN, MAX ... WHERE month = $1) UPDATE road_dgvi SET
\* dgvi_normalized = ... WHERE month = $1
NormalizeMonth(table, month) ==
    [key \in DOMAIN table |->
        IF key \in MonthKeys(table, month)
        THEN Row(table[key].dgvi,
                 SqlVal(Normalized(table[key].dgvi, MinDgvi(table, month),
                                   MaxDgvi(table, month))))
        ELSE table[key]]

Active(t) == rpc[t] \notin {"idle", "done", "failed"}

\* the task holds the client updateAllRoadDGVI checked out
HoldsClient(t) == rpc[t] \in {"roads", "calc_connect", "calc_query", "upsert",
                              "normalize"}

\* the task waits in pool.connect()
WaitsForClient(t) == rpc[t] \in {"connect", "calc_connect"}

engineRest == <<opKind, opKey, opPc, opCount, opResult, stopSiteCache,
                nextStopCache, cacheReads>>
notRebuildVars == <<batchVars, planVars, transferVars, sequenceVars, routeIdVars>>

\* POST /update-dgvi calls updateAllRoadDGVI(month)
RebuildCall(t) ==
    /\ ~Active(t)
    /\ runsStarted < MaxRuns
    /\ \E m \in Months : rMonth' = [rMonth EXCEPT ![t] = m]
    /\ rpc' = [rpc EXCEPT ![t] = "connect"]
    /\ rIdx' = [rIdx EXCEPT ![t] = 1]
    /\ runsStarted' = runsStarted + 1
    /\ clean' = [u \in Tasks |->
                   IF u = t THEN \A w \in Tasks \ {t} : ~Active(w) ELSE FALSE]
    /\ UNCHANGED <<rDgvi, roadDgvi, lastClean, faultSeen, calcLog>>
    /\ UNCHANGED <<engineVars, notRebuildVars>>

\* const client = await this.pool.connect()
RebuildConnect(t) ==
    /\ rpc[t] = "connect"
    /\ Connect(t, "dgvi")
    /\ rpc' = [rpc EXCEPT ![t] = "roads"]
    /\ UNCHANGED <<rMonth, rIdx, rDgvi, roadDgvi, runsStarted, clean, lastClean,
                   faultSeen, calcLog>>
    /\ UNCHANGED <<engineRest, released, notRebuildVars>>

\* pool.connect() rejects (the store refuses the new connection): it is
\* outside the try, the call throws. A connect that has to wait for a client
\* does not reject: the pool has no connection timeout.
RebuildConnectRejects(t) ==
    /\ rpc[t] = "connect"
    /\ checkedOut["dgvi"] < PoolSize
    /\ rpc' = [rpc EXCEPT ![t] = "failed"]
    /\ clean' = [clean EXCEPT ![t] = FALSE]
    /\ UNCHANGED <<rMonth, rIdx, rDgvi, roadDgvi, runsStarted, lastClean,
                   faultSeen, calcLog>>
    /\ UNCHANGED <<engineVars, notRebuildVars>>

\* SELECT id FROM stockholm_osm ORDER BY id
RoadsQuery(t) ==
    /\ rpc[t] = "roads"
    /\ rpc' = [rpc EXCEPT ![t] = IF Len(RoadIds) = 0 THEN "normalize"
                                ELSE "calc_connect"]
    /\ UNCHANGED <<rMonth, rIdx, rDgvi, roadDgvi, runsStarted, clean, lastClean,
                   faultSeen, calcLog>>
    /\ UNCHANGED <<engineVars, notRebuildVars>>

\* a query of updateAllRoadDGVI rejects (roads query, upsert or the
\* normalization): catch rethrows, finally releases
RebuildQueryThrows(t) ==
    /\ rpc[t] \in {"roads", "upsert", "normalize"}
    /\ Release(t, "dgvi")
    /\ rpc' = [rpc EXCEPT ![t] = "failed"]
    /\ clean' = [clean EXCEPT ![t] = FALSE]
    /\ UNCHANGED <<rMonth, rIdx, rDgvi, roadDgvi, runsStarted, lastClean,
                   faultSeen, calcLog>>
    /\ UNCHANGED <<engineRest, acquired, notRebuildVars>>

\* calculateSegmentDGVI: const client = await this.pool.connect(), while
\* updateAllRoadDGVI keeps its own client
RebuildSegmentConnect(t) ==
    /\ rpc[t] = "calc_connect"
    /\ Connect(t, "dgvi")
    /\ rpc' = [rpc EXCEPT ![t] = "calc_query"]
    /\ UNCHANGED <<rMonth, rIdx, rDgvi, roadDgvi, runsStarted, clean, lastClean,
                   faultSeen, calcLog>>
    /\ UNCHANGED <<engineRest, released, notRebuildVars>>

\* that connect rejects: calculateSegmentDGVI throws, updateAllRoadDGVI
\* rethrows and releases its client
RebuildSegmentConnectRejects(t) ==
    /\ rpc[t] = "calc_connect"
    /\ checkedOut["dgvi"] < PoolSize
    /\ Release(t, "dgvi")
    /\ rpc' = [rpc EXCEPT ![t] = "failed"]
    /\ clean' = [clean EXCEPT ![t] = FALSE]
    /\ UNCHANGED <<rMonth, rIdx, rDgvi, roadDgvi, runsStarted, lastClean,
                   faultSeen, calcLog>>
    /\ UNCHANGED <<engineRest, acquired, notRebuildVars>>

\* the query of calculateSegmentDGVI resolves (return rows[0]?.dgvi || 0.0) or
\* rejects (catch: return 0.0); finally releases
RebuildSegmentQuery(t) ==
    /\ rpc[t] = "calc_query"
    /\ \E ok \in BOOLEAN :
         LET roadId == RoadIds[rIdx[t]]
             dgvi == IF ok THEN CalculateSegmentDGVI(roadId, rMonth[t]) ELSE 0
         IN /\ rDgvi' = [rDgvi EXCEPT ![t] = dgvi]
            /\ calcLog' = calcLog \cup { [roadId |-> roadId, month |-> rMonth[t],
                                         resolved |-> ok, dgvi |-> dgvi] }
            /\ faultSeen' = (faultSeen \/ ~ok)
            /\ clean' = [clean EXCEPT ![t] = @ /\ ok]
    /\ Release(t, "dgvi")
    /\ rpc' = [rpc EXCEPT ![t] = "upsert"]
    /\ UNCHANGED <<rMonth, rIdx, roadDgvi, runsStarted, lastClean>>
    /\ UNCHANGED <<engineRest, acquired, notRebuildVars>>

\* the upsert of the row, and the loop's step to the next road. The batches
\* of 100 only group the log lines.
Upsert(t) ==
    /\ rpc[t] = "upsert"
    /\ roadDgvi' = UpsertRow(roadDgvi, RoadIds[rIdx[t]], rMonth[t], rDgvi[t])
    /\ lastClean' = FALSE
    /\ rIdx' = [rIdx EXCEPT ![t] = @ + 1]
    /\ rpc' = [rpc EXCEPT ![t] = IF rIdx[t] < Len(RoadIds) THEN "calc_connect"
                                ELSE "normalize"]
    /\ UNCHANGED <<rMonth, rDgvi, runsStarted, clean, faultSeen, calcLog>>
    /\ UNCHANGED <<engineVars, notRebuildVars>>

\* the normalization of the month's rows; return, finally releases
Normalize(t) ==
    /\ rpc[t] = "normalize"
    /\ roadDgvi' = NormalizeMonth(roadDgvi, rMonth[t])
    /\ lastClean' = clean[t]
    /\ Release(t, "dgvi")
    /\ rpc' = [rpc EXCEPT ![t] = "done"]
    /\ UNCHANGED <<rMonth, rIdx, rDgvi, runsStarted, clean, faultSeen, calcLog>>
    /\ UNCHANGED <<engineRest, acquired, notRebuildVars>>

RebuildInit ==
    BatchIdle /\ PlanIdle /\ EngineIdle /\ TransferIdle /\ RebuildIdle
    /\ SequenceIdle /\ RouteIdIdle

NextRebuild ==
    \/ \E t \in Tasks : RebuildCall(t)
    \/ \E t \in Tasks : RebuildConnect(t)
    \/ \E t \in Tasks : RebuildConnectRejects(t)
    \/ \E t \in Tasks : RoadsQuery(t)
    \/ \E t \in Tasks : RebuildQueryThrows(t)
    \/ \E t \in Tasks : RebuildSegmentConnect(t)
    \/ \E t \in Tasks : RebuildSegmentConnectRejects(t)
    \/ \E t \in Tasks : RebuildSegmentQuery(t)
    \/ \E t \in Tasks : Upsert(t)
    \/ \E t \in Tasks : Normalize(t)

SpecRebuild == RebuildInit /\ [][NextRebuild]_vars

(***************************************************************************)
(* Properties of the DGVI table                                            *)
(***************************************************************************)
\* C21: calculateSegmentDGVI(roadId, month) returns 0 when the query
\* succeeds and no GVI point of the month lies within the buffer of the edge
C21_NoMatchedPointsZero ==
    \A e \in calcLog :
       (e.resolved /\ MatchedGviPoints(e.roadId, e.month) = << >>)
          => e.dgvi = 0

\* C22: in every state of the table each row's dgvi_normalized is the min-max
\* normalization of its dgvi over the current rows of its month, a value
\* between 0 and 1
C22_RowsNormalized ==
    \A key \in DOMAIN roadDgvi :
       roadDgvi[key].present =>
          LET norm == roadDgvi[key].dgvi_normalized
              want == Normalized(roadDgvi[key].dgvi, MinDgvi(roadDgvi, key[2]),
                                 MaxDgvi(roadDgvi, key[2]))
          IN /\ norm # SqlNull
             /\ norm.v.num * want.den = want.num * norm.v.den
             /\ 0 <= norm.v.num /\ norm.v.num <= norm.v.den

\* the table a single fault-free rebuild of the month leaves
FaultFreeDgvi(roadId, month) == CalculateSegmentDGVI(roadId, month)
FaultFreeMin(month) ==
    CHOOSE x \in { FaultFreeDgvi(RoadIds[k], month) : k \in DOMAIN RoadIds } :
       \A k \in DOMAIN RoadIds : x <= FaultFreeDgvi(RoadIds[k], month)
FaultFreeMax(month) ==
    CHOOSE x \in { FaultFreeDgvi(RoadIds[k], month) : k \in DOMAIN RoadIds } :
       \A k \in DOMAIN RoadIds : x >= FaultFreeDgvi(RoadIds[k], month)
FaultFreeRow(roadId, month) ==
    Row(FaultFreeDgvi(roadId, month),
        SqlVal(Normalized(FaultFreeDgvi(roadId, month), FaultFreeMin(month),
                          FaultFreeMax(month))))

\* the month of the rebuild that completed last, alone and without a fault,
\* with no write to the table since
CleanMonths == { m \in Months : lastClean /\ \E t \in Tasks :
                   rpc[t] = "done" /\ clean[t] /\ rMonth[t] = m }

\* C23: after a rebuild of a month that ran alone and without a fault, also
\* as a second run and after a run with failed computations, every row of the
\* month has the dgvi and dgvi_normalized of a single fault-free run
C23_RebuildIdempotent ==
    \A m \in CleanMonths : \A k \in DOMAIN RoadIds :
       roadDgvi[<<RoadIds[k], m>>] = FaultFreeRow(RoadIds[k], m)

\* a second rebuild of a month completed fault-free after a computation of
\* that month had failed
C23_Witness ==
    /\ runsStarted >= 2
    /\ \E m \in CleanMonths : \E e \in calcLog : e.month = m /\ ~e.resolved

\* every client of the pool is held by a rebuild that waits in pool.connect()
PoolDeadlock ==
    /\ checkedOut["dgvi"] = PoolSize
    /\ \E t \in Tasks : HoldsClient(t)
    /\ \A t \in Tasks : HoldsClient(t) => WaitsForClient(t)

\* C28: no operation waits for a client of the pool while it holds one of the
\* same pool, and no state is reached in which the rebuilds hold every client
\* and all wait for another one
C28_NoPoolDeadlock ==
    /\ \A t \in Tasks : ~(HoldsClient(t) /\ WaitsForClient(t))
    /\ ~PoolDeadlock

\* the deadlock alone
C28_DeadlockFree == ~PoolDeadlock

(***************************************************************************)
(* Properties of the response                                              *)
(***************************************************************************)
\* C24: the response never holds more routes than the request's max_results
C24_AtMostMaxResults ==
    Responded => Len(finalRoutes) <= maxResults

\* maxWalkingTime * walkingSpeed of findNearbySites, and the forecast passed
\* to getBatchDepartures
MaxWalkingDistance == 1680
ForecastWindow == 1200

\* findNearbySites(origin) returned rows, each farther than the walking
\* distance: the closest sites of the query
NearestSiteMiss ==
    /\ originSites # <<>>
    /\ \A k \in DOMAIN originSites :
          originSites[k].walkingDistance > MaxWalkingDistance

\* every departure the feed reported lies within the forecast window
FeedWithinWindow ==
    \A k \in DOMAIN feedLog : \A d \in DOMAIN feedLog[k].deps :
       feedLog[k].deps[d].expected <= ForecastWindow

\* C25: when every site is farther from the origin than the walking distance,
\* then whatever the feed reports within its window the request is answered
\* without an error, with no bus route and with the walking routes found
C25_NearestSiteMiss ==
    (NearestSiteMiss /\ FeedWithinWindow) =>
       /\ ppc # "threw" /\ apiResponse # "error500"
       /\ top5Routes = <<>> /\ busRoutes = <<>>
       /\ Responded =>
             /\ BusOf(finalRoutes) = <<>>
             /\ finalRoutes = Slice(walkingRoutes, KeepPerCategory)

\* a far origin, a feed in which a journey leaves one of the far sites and
\* later calls at a destination site, a walking route in the response
C25_Witness ==
    /\ NearestSiteMiss /\ FeedWithinWindow /\ Responded
    /\ \E o \in DOMAIN feedLog, a \in DOMAIN feedLog :
          /\ \E k \in DOMAIN originSites : feedLog[o].site = originSites[k].siteId
          /\ \E k \in DOMAIN destinationSites :
                feedLog[a].site = destinationSites[k].siteId
          /\ \E d \in DOMAIN feedLog[o].deps, e \in DOMAIN feedLog[a].deps :
                /\ feedLog[o].deps[d].journey = feedLog[a].deps[e].journey
                /\ feedLog[o].deps[d].line = feedLog[a].deps[e].line
                /\ feedLog[o].deps[d].dir = feedLog[a].deps[e].dir
                /\ feedLog[o].deps[d].mode = "BUS"
                /\ feedLog[o].deps[d].expected < feedLog[a].deps[e].expected
    /\ finalRoutes # <<>>

\* the same without the condition on the feed
C25_AnyFeed ==
    NearestSiteMiss => busRoutes = <<>>

(***************************************************************************)
(* Properties of the transfer chain                                        *)
(***************************************************************************)
\* the first ride of r ends at hop k of its agent's chain: the ride lasts
\* 90 * k seconds from the agent's nominal departure
EndsAtHop(r, k) ==
    /\ ~RidesOf(r)[1].duration.nan
    /\ RidesOf(r)[1].duration.v = 90 * k

\* C27: whatever the stop-sequence table holds (line routes, a ring, no row)
\* findTransferChainCached makes at most 10 next-stop lookups per agent, the
\* arrival estimated at hop k is the nominal departure plus 90 * k seconds, and
\* the second ride of every emitted itinerary departs at least 60 s after it
C27_ChainBounded ==
    /\ \A k \in DOMAIN lookupLog : lookupLog[k] <= 10
    /\ \A a \in DOMAIN chainLog : \A n \in DOMAIN chainLog[a] :
          LET r == chainLog[a][n] IN
          /\ Len(RidesOf(r)) = 2
          /\ \E k \in 1..lookupLog[a] :
                /\ EndsAtHop(r, k)
                /\ RidesOf(r)[2].expectedDeparture
                      >= RidesOf(r)[1].expectedDeparture + 90 * k + 60

\* on a ring an agent used all its 10 lookups, and another agent's itinerary
\* was emitted at its second hop
C27_Witness ==
    /\ \E k \in DOMAIN lookupLog : lookupLog[k] = 10
    /\ \E a \in DOMAIN chainLog : \E n \in DOMAIN chainLog[a] :
          EndsAtHop(chainLog[a][n], 1)

\* a table without rows: one lookup per agent
C27_WitnessNoSuccessor ==
    slBusTrips = {} /\ \E k \in DOMAIN lookupLog : lookupLog[k] = 1

(***************************************************************************)
(* DataBuilder.processSiteBatch and saveRouteSequences                     *)
(***************************************************************************)
\* site batches processed in a run of the model
MaxBuilds == 3

\* what the feed may report for a site while journey 1 (line 2, a ring
\* 11 -> 21 -> 31 -> 11) and journey 2 (line 1, 11 -> 21) are under way; a
\* departure may come without a stop point (stop 0) or a journey (journey 0)
ObservedAt(site) ==
    CASE site = 1 ->
           { <<>>,
             << Dep(1, 2, 1, 11, 300, "BUS") >>,
             << Dep(1, 2, 1, 11, 300, "BUS"), Dep(2, 1, 1, 11, 300, "BUS") >>,
             << Dep(1, 2, 1, 11, 300, "BUS"), Dep(1, 2, 1, 11, 900, "BUS") >>,
             << Dep(1, 2, 1, 0, 300, "BUS"), Dep(0, 1, 1, 11, 300, "BUS") >> }
      [] site = 2 ->
           { <<>>,
             << Dep(1, 2, 1, 21, 390, "BUS") >>,
             << Dep(2, 1, 1, 21, 400, "BUS"), Dep(1, 2, 1, 21, 390, "BUS") >> }
      [] OTHER ->
           { <<>>, << Dep(1, 2, 1, 31, 480, "BUS") >> }

\* the sites of a batch, by site_id
BatchSites == <<1, 2, 3>>

\* the departures of departuresMap, in the order of its entries
RECURSIVE AllDepartures(_)
AllDepartures(departuresMap) ==
    IF departuresMap = <<>> THEN <<>>
    ELSE Head(departuresMap).departures \o AllDepartures(Tail(departuresMap))

\* stops.sort by expected_time (Array.prototype.sort is stable)
RECURSIVE InsertByExpected(_, _)
InsertByExpected(sorted, stop) ==
    IF sorted = <<>> THEN << stop >>
    ELSE IF stop.expected < Head(sorted).expected THEN << stop >> \o sorted
    ELSE << Head(sorted) >> \o InsertByExpected(Tail(sorted), stop)

RECURSIVE SortByExpected(_)
SortByExpected(stops) ==
    IF stops = <<>> THEN <<>>
    ELSE InsertByExpected(SortByExpected(SubSeq(stops, 1, Len(stops) - 1)),
                          stops[Len(stops)])

\* journeyRoutes.get(journeyId), sorted
JourneyStops(departuresMap, journeyId) ==
    SortByExpected(SelectSeq(AllDepartures(departuresMap),
                             LAMBDA dep : dep.journey = journeyId))

\* the rows saveRouteSequences tries to insert for one journey
JourneySequences(stops) ==
    IF Len(stops) < 2 THEN {}
    ELSE { TripRow(stops[k].line, stops[k].dir, stops[k].stop, stops[k + 1].stop) :
             k \in { n \in 1..(Len(stops) - 1) :
                       /\ stops[n].stop # 0
                       /\ stops[n + 1].stop # 0
                       /\ stops[n].stop # stops[n + 1].stop } }

\* ... for every journey of journeyRoutes (a departure without journey.id is
\* left out)
RouteSequences(departuresMap) ==
    UNION { JourneySequences(JourneyStops(departuresMap, j)) :
              j \in { AllDepartures(departuresMap)[k].journey :
                        k \in DOMAIN AllDepartures(departuresMap) } \ {0} }

\* the departuresMap getBatchDepartures may return
RECURSIVE DepartureMaps(_)
DepartureMaps(sites) ==
    IF sites = <<>> THEN { <<>> }
    ELSE { << [siteId |-> Head(sites), departures |-> body] >> \o rest :
              body \in ObservedAt(Head(sites)),
              rest \in DepartureMaps(Tail(sites)) }

\* processSiteBatch: the feed is read, the journeys are grouped and
\* saveRouteSequences inserts their sequences with ON CONFLICT DO NOTHING; an
\* insert that fails is logged and the loop goes on
ProcessSiteBatch ==
    /\ buildRuns < MaxBuilds
    /\ \E departuresMap \in DepartureMaps(BatchSites) :
         \E failed \in SUBSET RouteSequences(departuresMap) :
            slBusTrips' = slBusTrips \cup (RouteSequences(departuresMap) \ failed)
    /\ buildRuns' = buildRuns + 1
    /\ UNCHANGED notSequenceVars

\* getBatchDepartures or pool.connect() rejects: the catch of processSiteBatch
\* returns 0
ProcessSiteBatchFails ==
    /\ buildRuns < MaxBuilds
    /\ buildRuns' = buildRuns + 1
    /\ UNCHANGED slBusTrips
    /\ UNCHANGED notSequenceVars

SequenceInit ==
    BatchIdle /\ PlanIdle /\ EngineIdle /\ TransferIdle /\ RebuildIdle
    /\ SequenceIdle /\ RouteIdIdle

NextSequence ==
    \/ ProcessSiteBatch
    \/ ProcessSiteBatchFails

SpecSequence == SequenceInit /\ [][NextSequence]_vars

(***************************************************************************)
(* Properties of the stop sequences                                        *)
(***************************************************************************)
\* no row leads from a stop point to itself
NoSelfSequence ==
    \A row \in slBusTrips : row.stop_point_id # row.next_stop_point_id

\* C26: after any sequence of incremental builds sl_bus_trips holds no row
\* with stop_point_id = next_stop_point_id and at most one next_stop_point_id
\* per (line_id, direction_code, stop_point_id)
C26_FunctionalSuccessor ==
    /\ NoSelfSequence
    /\ \A a, b \in slBusTrips :
          ( /\ a.line_id = b.line_id
            /\ a.direction_code = b.direction_code
            /\ a.stop_point_id = b.stop_point_id )
          => a.next_stop_point_id = b.next_stop_point_id

(***************************************************************************)
(* Properties of the stop -> site cache                                    *)
(***************************************************************************)
\* C30: whatever calls of getStopPointSiteCached came before, also calls whose
\* store lookup failed, the value the cache holds for a stop point (the value
\* the next call returns) is the one a lookup against the healthy store
\* returns
C30_StopSiteCacheCoherent ==
    \A key \in DOMAIN stopSiteCache :
       stopSiteCache[key].val = StopSiteRow(key)

\* a call answered from an entry that a failed lookup wrote
C30_NullServedFromCache ==
    \E t \in Tasks :
       /\ opKind[t] = "getStopPointSiteCached" /\ opResult[t] = "hit"
       /\ opPc[t] = "idle"
       /\ stopSiteCache[opKey[t]].val = JsNull

(***************************************************************************)
(* RoutePlan.createWalkingRoute, createDirectBusRoute: the route ids       *)
(***************************************************************************)
\* milliseconds a request is followed for, and direct routes it constructs
MaxClock == 3
MaxDirect == 3

\* lines of the direct routes, and road-id fingerprints of the walking paths
RouteLines == {1, 2}
PathPrints == {"a", "b"}

\* `walking_${Date.now()}` and `direct_${config.lineId}_${Date.now()}`: the
\* parts of the template, which the string determines (the prefixes differ,
\* line ids and clock readings are decimal numerals)
WalkingRouteId(ms) == << "walking", ms >>
DirectRouteId(lineId, ms) == << "direct", lineId, ms >>

\* deduplicateRoutes: the first route of each fingerprint
RECURSIVE UniquePaths(_, _)
UniquePaths(routes, seen) ==
    IF routes = <<>> THEN <<>>
    ELSE IF Head(routes).print \in seen THEN UniquePaths(Tail(routes), seen)
    ELSE << Head(routes) >> \o UniquePaths(Tail(routes), seen \cup {Head(routes).print})

RouteIdsOf(routes) == [k \in DOMAIN routes |-> routes[k].routeId]

\* the clock of the server moves on while the request is served
ClockTick ==
    /\ idPhase \in {"walking", "bus"}
    /\ now < MaxClock
    /\ now' = now + 1
    /\ UNCHANGED <<idPhase, builtWalking, builtDirect, responseIds>>
    /\ UNCHANGED notRouteIdVars

\* generateWalkingCandidates: a strategy found a path and createWalkingRoute
\* builds its route
WalkingRouteBuilt ==
    /\ idPhase = "walking"
    /\ Len(builtWalking) < NumStrategies
    /\ \E print \in PathPrints :
         builtWalking' = Append(builtWalking,
                                [routeType |-> "walking", print |-> print,
                                 routeId |-> WalkingRouteId(now)])
    /\ UNCHANGED <<now, idPhase, builtDirect, responseIds>>
    /\ UNCHANGED notRouteIdVars

\* generateWalkingCandidates returns; generateBusCandidates starts
WalkingCandidatesReturn ==
    /\ idPhase = "walking"
    /\ idPhase' = "bus"
    /\ UNCHANGED <<now, builtWalking, builtDirect, responseIds>>
    /\ UNCHANGED notRouteIdVars

\* findDirectRoutes: a journey passes the tests and createDirectBusRoute
\* builds its route
DirectRouteBuilt ==
    /\ idPhase = "bus"
    /\ Len(builtDirect) < MaxDirect
    /\ \E lineId \in RouteLines :
         builtDirect' = Append(builtDirect,
                               [routeType |-> "direct_bus", lineId |-> lineId,
                                routeId |-> DirectRouteId(lineId, now)])
    /\ UNCHANGED <<now, idPhase, builtWalking, responseIds>>
    /\ UNCHANGED notRouteIdVars

\* the two bus routes that the sorts by arrival and by score leave first: any
\* two of the routes built (neither sort reads the id)
BusSelections(routes) ==
    IF Len(routes) <= 1 THEN { routes }
    ELSE { << routes[a], routes[b] >> : a, b \in DOMAIN routes } \
         { << routes[a], routes[a] >> : a \in DOMAIN routes }

\* planRoutes returns walkingRoutes.slice(0, 2) and busRoutes.slice(0, 2), and
\* the handler maps the routes to their API form
RoutesReturned ==
    /\ idPhase = "bus"
    /\ \E bus \in BusSelections(builtDirect) :
         responseIds' = RouteIdsOf(Slice(UniquePaths(builtWalking, {}), KeepPerCategory))
                        \o RouteIdsOf(bus)
    /\ idPhase' = "done"
    /\ UNCHANGED <<now, builtWalking, builtDirect>>
    /\ UNCHANGED notRouteIdVars

RouteIdInit ==
    /\ BatchIdle /\ PlanIdle /\ EngineIdle /\ TransferIdle /\ RebuildIdle
    /\ SequenceIdle
    /\ now = 0
    /\ idPhase = "walking"
    /\ builtWalking = <<>>
    /\ builtDirect = <<>>
    /\ responseIds = <<>>

NextRouteId ==
    \/ ClockTick
    \/ WalkingRouteBuilt
    \/ WalkingCandidatesReturn
    \/ DirectRouteBuilt
    \/ RoutesReturned

SpecRouteId == RouteIdInit /\ [][NextRouteId]_vars

\* C29: the route_id values of the routes of one response are pairwise
\* distinct, also when routes of one type and line are built within one
\* millisecond
C29_RouteIdsDistinct ==
    idPhase = "done" =>
       \A a, b \in DOMAIN responseIds :
          a # b => responseIds[a] # responseIds[b]

====
